---- MODULE Spec2Model ----
(***************************************************************************)
(* mcp-proxy: the bidirectional message pipeline (pipeline.py), the        *)
(* intercept engine (intercept.py), the classification helpers             *)
(* (correlation.py), the session store's capture list (session_store.py),  *)
(* the adapter protocol the pipeline talks to (adapters/base.py) and the    *)
(* intercept actions of the terminal UI that drive the engine (tui/app.py).*)
(*                                                                         *)
(* One asyncio event loop runs everything: a step of the model is what a   *)
(* task does between two awaits.  Each await of the forward loop (read,    *)
(* rendezvous wait, write) is a point where other tasks may run.           *)
(*                                                                         *)
(* Spec is a run of the pipeline with the UI or a releasing observer on    *)
(* the engine; LiveSpec adds the scheduling of the event loop;             *)
(* CorrelationSpec follows capture and correlation for every class of      *)
(* message; EngineSpec drives the engine alone; ReplaySpec is one call of  *)
(* replay_messages (replay.py) against a server adapter; StdioSpec is one  *)
(* stdio adapter (adapters/stdio.py) with its bridge tasks and callers.    *)
(***************************************************************************)
EXTENDS Integers, Sequences, FiniteSets, TLC

VARIABLES
    mode,             \* InterceptEngine._mode
    held,             \* InterceptEngine._held: sequence of references into recs
    recs,             \* every HeldMessage object created so far (the heap)
    store,            \* SessionStore._messages (ProxyMessage objects, mutable in place)
    index,            \* SessionStore._index: proxy id -> position in store
    seq,              \* itertools.count(): the next value it yields
    uuids,            \* number of uuid4() values drawn so far
    correlation_map,  \* run_pipeline's correlation_map: jsonrpc id -> proxy id
    pc,               \* per forward loop: where the task is suspended
    proxy_msg,        \* per forward loop: local proxy_msg (position in store, 0 = none)
    heldref,          \* per forward loop: local held (reference into recs, 0 = none)
    session_message,  \* per forward loop: local session_message (payload to write)
    write_queue,      \* per adapter: every message write() has accepted, in order
    on_held,          \* PipelineSession.on_held: the UI's callback or a releasing observer
    pipeline,         \* run_pipeline: "running" | "returned"
    editing,          \* ProxyApp._editing
    editing_held,     \* ProxyApp._editing_held (reference into recs, 0 = None)
    read_log,         \* history: per direction, the messages returned by read
    sent,             \* history: per direction, the store position of each payload written
    seen,             \* history: per store position, the action the loop read after its wait
    callbacks,        \* history: per direction, the observer callbacks fired, in order
    calls,            \* history: per HeldMessage, the release calls made on it, in order
    messages,         \* replay_messages: the argument messages
    auto_handshake,   \* replay_messages: the argument auto_handshake
    replay_pc,        \* replay_messages: where the coroutine is suspended
    results,          \* replay_messages: the local results
    adapter_writes,   \* history: every write replay called on the adapter, in order
    adapter_reads,    \* history: every read replay called on the adapter that ended, in order
    _closed,          \* stdio adapter: _closed
    _read_queue,      \* stdio adapter: _read_queue, first item first
    _write_queue,     \* stdio adapter: _write_queue, first item first
    _reader_task,     \* stdio adapter: the reader bridge task: "running" | "cancelled" | "done"
    _writer_task,     \* stdio adapter: the writer bridge task: "running" | "cancelled" | "done"
    read_stream,      \* the items the SDK's read stream has yielded, in order
    write_stream,     \* the messages sent into the SDK's write stream, in order
    reader,           \* the task that calls read: where it is, and what it has seen
    closer,           \* per task that calls close: where it is
    adapter_log,      \* history: the calls of read, write and close that ended, in order
    \* session_store.py: a store that is saved, the file, a store that was loaded
    fresh,            \* the SessionStore the program created and appends to
    loaded,           \* the SessionStore that load returned, or NoStore
    path,             \* the content of the file at the path given to save and load
    save_pc,          \* where the call of save is
    text,             \* save's local: the JSON text to write
    saves,            \* number of calls of save
    path_at_call,     \* history: the content of the file when save was called
    saved             \* history: the store whose complete document the file holds

engineVars == << mode, held, recs, calls >>
captureVars == << store, index, seq, uuids, correlation_map, read_log, seen, callbacks >>
loopVars == << pc, proxy_msg, heldref, session_message >>
writeVars == << write_queue, sent >>
uiVars == << editing, editing_held >>
sessionVars == << on_held, pipeline >>
replayVars == << messages, auto_handshake, replay_pc, results, adapter_writes, adapter_reads >>
stdioVars == << _closed, _read_queue, _write_queue, _reader_task, _writer_task, read_stream,
                write_stream, reader, closer, adapter_log >>
fileVars == << fresh, loaded, path, save_pc, text, saves, path_at_call, saved >>
pipelineVars == << engineVars, captureVars, loopVars, writeVars, uiVars, sessionVars >>

vars == << engineVars, captureVars, loopVars, writeVars, uiVars, sessionVars, replayVars, stdioVars,
           fileVars >>

----------------------------------------------------------------------------
(* Bounds of the model *)

\* messages read by the two forward loops together; records the engine holds
MaxMsgs == 2

\* release calls, where the engine is driven on its own
MaxReleases == 2

\* messages read, where only capture and correlation are followed
MaxCorrelated == 3

\* envelopes given to a replay
MaxReplay == 2

\* messages the server sends during a replay
MaxReads == 3

\* items the SDK's read stream yields to a stdio adapter
MaxStream == 3

\* calls of read, write and close made on a stdio adapter
MaxCalls == 4

\* envelopes appended to a session store
MaxStored == 2

\* calls of save on a session store
MaxSaves == 2

----------------------------------------------------------------------------
(* models.py: enumerations *)

CLIENT_TO_SERVER == "client_to_server"
SERVER_TO_CLIENT == "server_to_client"
Direction == {CLIENT_TO_SERVER, SERVER_TO_CLIENT}

STDIO == "stdio"

PASSTHROUGH == "passthrough"
INTERCEPT == "intercept"
InterceptMode == {PASSTHROUGH, INTERCEPT}

FORWARD == "forward"
MODIFY == "modify"
DROP == "drop"
InterceptAction == {FORWARD, MODIFY, DROP}

\* Python's None in the slots that hold a string or an enum member
None == "None"

----------------------------------------------------------------------------
(* JSON-RPC messages (mcp.types.JSONRPCMessage): the root's class, id, method. *)
(* An id is an integer or a string; 1 and "1" are different ids.                *)

IntId(n) == [t |-> "int", v |-> n]
StrId(n) == [t |-> "str", v |-> n]
NoId == [t |-> "none", v |-> 0]

JSONRPCRequest(i, m) == [kind |-> "request", id |-> i, method |-> m]
JSONRPCResponse(i) == [kind |-> "response", id |-> i, method |-> None]
JSONRPCError(i) == [kind |-> "error", id |-> i, method |-> None]
JSONRPCNotification(m) == [kind |-> "notification", id |-> NoId, method |-> m]

\* None in a slot that holds a message
NoneMsg == [kind |-> "None", id |-> NoId, method |-> None]

\* None in a slot that holds a proxy id; no HeldMessage / no ProxyMessage in a local
NonePid == 0
NoRef == 0

\* what the peers send in the model: a request and its answer
InMsgs ==
    { JSONRPCRequest(IntId(1), "tools/list"),
      JSONRPCResponse(IntId(1)) }

\* what the peers send where correlation is followed: every class of message,
\* and the id 1 as an integer and as a string
AnyMsgs ==
    { JSONRPCRequest(IntId(1), "tools/list"),
      JSONRPCRequest(StrId(1), "tools/call"),
      JSONRPCResponse(IntId(1)),
      JSONRPCResponse(StrId(1)),
      JSONRPCError(IntId(1)),
      JSONRPCNotification("notifications/initialized") }

\* what the user types in the editor in the model
ModMsgs ==
    { JSONRPCRequest(IntId(2), "tools/call") }

----------------------------------------------------------------------------
(* correlation.py *)

\* variant: the id is compared as text, so 1 and "1" are the same key
extract_jsonrpc_id_as_text(message) ==
    IF message.kind \in {"request", "response", "error"}
    THEN [t |-> "str", v |-> message.id.v]
    ELSE NoId

extract_jsonrpc_id(message) ==
    IF message.kind = "request" THEN message.id
    ELSE IF message.kind \in {"response", "error"} THEN message.id
    ELSE NoId

extract_method(message) ==
    IF message.kind = "request" THEN message.method
    ELSE IF message.kind = "notification" THEN message.method
    ELSE None

is_request(message) == message.kind = "request"

is_response(message) == message.kind \in {"response", "error"}

is_notification(message) == message.kind = "notification"

----------------------------------------------------------------------------
(* adapters/base.py: the pipeline sees an adapter only through the           *)
(* TransportAdapter protocol: read returns the next message of the peer or   *)
(* raises, write accepts a message or raises.                                *)

Adapters == {"client", "server"}

----------------------------------------------------------------------------
(* intercept.py: InterceptEngine *)

Range(s) == { s[i] : i \in DOMAIN s }

\* variant: every message is held, whatever the mode
should_hold_always(message) == TRUE

should_hold(message) == mode = INTERCEPT

\* hold(): the new HeldMessage
NewHeld(p) == [proxy_message |-> p, release |-> FALSE, action |-> None,
               modified_raw |-> NoneMsg]

\* variant: hold starts a new list
hold_new_list(p) ==
    /\ recs' = Append(recs, NewHeld(p))
    /\ held' = << Len(recs) + 1 >>
    /\ calls' = Append(calls, << >>)

\* hold(): create the record and append it to the held list
hold(p) ==
    /\ recs' = Append(recs, NewHeld(p))
    /\ held' = Append(held, Len(recs) + 1)
    /\ calls' = Append(calls, << >>)

\* the three assignments of release() on one HeldMessage object
Stamp(h, action, modified_raw) ==
    [h EXCEPT !.action = action, !.modified_raw = modified_raw, !.release = TRUE]

\* variant: the record is left in the list
KeepHeld(hs, r) == hs

\* release(): "if held in self._held: self._held.remove(held)"
RemoveHeld(hs, r) == SelectSeq(hs, LAMBDA x : x # r)

\* get_held(): a copy of the list
get_held == held

\* get_state(): the mode and a copy of the list
get_state == [mode |-> mode, held_messages |-> held]

\* one entry of the history of release calls: the action, and whether the call
\* came from set_mode or from another caller
Call(action, by) == [action |-> action, by |-> by]

release(r, action, modified_raw) ==
    /\ recs' = [recs EXCEPT ![r] = Stamp(@, action, modified_raw)]
    /\ held' = RemoveHeld(held, r)
    /\ calls' = [calls EXCEPT ![r] = Append(@, Call(action, "caller"))]

\* variant: only the mode is assigned
set_mode_only(m) ==
    /\ mode' = m
    /\ UNCHANGED << recs, held, calls >>

\* set_mode(): on PASSTHROUGH, release(held, FORWARD) for every entry of list(self._held)
set_mode(m) ==
    /\ mode' = m
    /\ IF m = PASSTHROUGH
       THEN /\ recs' = [r \in DOMAIN recs |->
                          IF r \in Range(held) THEN Stamp(recs[r], FORWARD, NoneMsg)
                          ELSE recs[r]]
            /\ held' = << >>
            /\ calls' = [r \in DOMAIN calls |->
                          IF r \in Range(held)
                          THEN Append(calls[r], Call(FORWARD, "set_mode"))
                          ELSE calls[r]]
       ELSE UNCHANGED << recs, held, calls >>

----------------------------------------------------------------------------
(* pipeline.py *)

\* the adapter a forward loop reads from / writes to (run_pipeline's two create_task calls)
Source(d) == IF d = CLIENT_TO_SERVER THEN "client" ELSE "server"

\* variant: both loops are given the server adapter as destination
DestinationServer(d) == "server"

Destination(d) == IF d = CLIENT_TO_SERVER THEN "server" ELSE "client"

\* uuid.uuid4(): a value no earlier call returned
uuid4 == uuids + 1

\* variant: each forward loop numbers its own messages
_wrap_message_own_counter(raw, direction, transport) ==
    [ id |-> uuid4,
      sequence |-> Len(read_log[direction]),
      direction |-> direction,
      transport |-> transport,
      raw |-> raw,
      jsonrpc_id |-> extract_jsonrpc_id(raw),
      method |-> extract_method(raw),
      correlated_id |-> NonePid,
      modified |-> FALSE,
      original_raw |-> NoneMsg ]

\* _wrap_message
_wrap_message(raw, direction, transport) ==
    [ id |-> uuid4,
      sequence |-> seq,
      direction |-> direction,
      transport |-> transport,
      raw |-> raw,
      jsonrpc_id |-> extract_jsonrpc_id(raw),
      method |-> extract_method(raw),
      correlated_id |-> NonePid,
      modified |-> FALSE,
      original_raw |-> NoneMsg ]

\* correlation_map[k] = v
MapPut(map, k, v) == [x \in (DOMAIN map) \cup {k} |-> IF x = k THEN v ELSE map[x]]

\* correlation_map.pop(k, None): the value, and the map that is left
MapGet(map, k) == IF k \in DOMAIN map THEN map[k] ELSE NonePid
MapPop(map, k) == [x \in (DOMAIN map) \ {k} |-> map[x]]

\* lines 127-133: the envelope after correlation
Correlate(pm, raw) ==
    IF is_request(raw) /\ pm.jsonrpc_id # NoId THEN pm
    ELSE IF is_response(raw) /\ pm.jsonrpc_id # NoId
              /\ MapGet(correlation_map, pm.jsonrpc_id) # NonePid
         THEN [pm EXCEPT !.correlated_id = MapGet(correlation_map, pm.jsonrpc_id)]
         ELSE pm

\* variant: a request does not overwrite the entry of an earlier request
CorrelateMapFirstWins(pm, raw) ==
    IF is_request(raw) /\ pm.jsonrpc_id # NoId
    THEN IF MapGet(correlation_map, pm.jsonrpc_id) # NonePid
         THEN correlation_map
         ELSE MapPut(correlation_map, pm.jsonrpc_id, pm.id)
    ELSE IF is_response(raw) /\ pm.jsonrpc_id # NoId
         THEN MapPop(correlation_map, pm.jsonrpc_id)
         ELSE correlation_map

\* variant: a response reads its entry and leaves it in the map
CorrelateMapKeeps(pm, raw) ==
    IF is_request(raw) /\ pm.jsonrpc_id # NoId
    THEN MapPut(correlation_map, pm.jsonrpc_id, pm.id)
    ELSE correlation_map

\* lines 127-133: the correlation map after correlation
CorrelateMap(pm, raw) ==
    IF is_request(raw) /\ pm.jsonrpc_id # NoId
    THEN MapPut(correlation_map, pm.jsonrpc_id, pm.id)
    ELSE IF is_response(raw) /\ pm.jsonrpc_id # NoId
         THEN MapPop(correlation_map, pm.jsonrpc_id)
         ELSE correlation_map

\* variant: the loop has no "continue" for DROP
NeverDropped(h) == FALSE

\* line 149: "if held.action == InterceptAction.DROP: continue"
Dropped(h) == h.action = DROP

\* variant: the id and the method of the envelope follow the edited payload
ApplyActionRecomputed(pm, h) ==
    IF h.action = MODIFY /\ h.modified_raw # NoneMsg
    THEN [pm EXCEPT !.original_raw = pm.raw, !.raw = h.modified_raw, !.modified = TRUE,
                    !.jsonrpc_id = extract_jsonrpc_id(h.modified_raw),
                    !.method = extract_method(h.modified_raw)]
    ELSE pm

\* variant: the snapshot is taken after raw has been overwritten
ApplyActionLateSnapshot(pm, h) ==
    IF h.action = MODIFY /\ h.modified_raw # NoneMsg
    THEN [pm EXCEPT !.original_raw = h.modified_raw, !.raw = h.modified_raw,
                    !.modified = TRUE]
    ELSE pm

\* lines 152-155: the envelope after the loop has read the held record h
ApplyAction(pm, h) ==
    IF h.action = MODIFY /\ h.modified_raw # NoneMsg
    THEN [pm EXCEPT !.original_raw = pm.raw, !.raw = h.modified_raw, !.modified = TRUE]
    ELSE pm

\* variant: the edit reaches the envelope but not the payload that is written
ApplyPayloadCaptured(msg, h) == msg

\* lines 152-156: the payload to write after the loop has read the held record h
ApplyPayload(msg, h) ==
    IF h.action = MODIFY /\ h.modified_raw # NoneMsg THEN h.modified_raw ELSE msg

\* what the on_held callback does before the loop waits: the UI's callback only
\* posts an event (tui/app.py _on_pipeline_held); an observer like those of
\* tests/test_pipeline.py releases the record on the spot
OnHeld ==
    IF on_held = "ui"
    THEN { [action |-> None, modified_raw |-> NoneMsg] }
    ELSE { [action |-> FORWARD, modified_raw |-> NoneMsg],
           [action |-> DROP, modified_raw |-> NoneMsg] }
         \cup { [action |-> MODIFY, modified_raw |-> m] : m \in ModMsgs }

\* the locals of a loop that goes round to "await source.read()"
LoopToRead(d) ==
    /\ pc' = [pc EXCEPT ![d] = "read"]
    /\ proxy_msg' = [proxy_msg EXCEPT ![d] = NoRef]
    /\ heldref' = [heldref EXCEPT ![d] = NoRef]
    /\ session_message' = [session_message EXCEPT ![d] = NoneMsg]

\* the locals of a loop that goes on to "await destination.write(msg)"
LoopToWrite(d, p, r, msg) ==
    /\ pc' = [pc EXCEPT ![d] = "write"]
    /\ proxy_msg' = [proxy_msg EXCEPT ![d] = p]
    /\ heldref' = [heldref EXCEPT ![d] = r]
    /\ session_message' = [session_message EXCEPT ![d] = msg]

Stopped(d) == pc[d] \in {"raised", "cancelled"}

\* variant: a loop suspended on the rendezvous cannot be cancelled
AbortUnlessWaiting(d) ==
    [x \in Direction |->
        IF x = d THEN "raised"
        ELSE IF Stopped(x) \/ pc[x] = "wait" THEN pc[x]
        ELSE "cancelled"]

\* asyncio.TaskGroup (run_pipeline, line 78): when the task of loop d raises, the
\* group cancels the other task, whatever await it is suspended in.  A step the
\* other task still takes before the cancellation reaches it does not depend
\* on the failure and is modelled as taken before it.
TaskGroupAbort(d) ==
    [x \in Direction |->
        IF x = d THEN "raised"
        ELSE IF Stopped(x) THEN pc[x]
        ELSE "cancelled"]

\* what an observer callback finds when it is called for the envelope at store
\* position p: the store, the engine's held list and records, where the loop
\* is, and what the loop has written, as they are at the call
Fired(cb, p, store_, held_, recs_, pc_, sent_) ==
    [ cb      |-> cb,
      p       |-> p,
      stored  |-> p \in DOMAIN store_,
      record  |-> \E r \in DOMAIN recs_ : recs_[r].proxy_message = p,
      in_held |-> \E i \in DOMAIN held_ : recs_[held_[i]].proxy_message = p,
      waiting |-> pc_ = "wait",
      written |-> p \in Range(sent_) ]

\* variant: on_message is called before the envelope is appended to the store
StoreBeforeAppend(pm) == store

\* line 136: the store once session_store.append(proxy_msg) has returned
StoreAfterAppend(pm) == Append(store, pm)

\* lines 139-140: on_message(proxy_msg), called between the append and should_hold
on_message(d, pm) ==
    Fired("on_message", Len(store) + 1, StoreAfterAppend(pm), held, recs, pc[d], sent[d])

\* lines 144-146: on_held(held), called once hold() has returned the new record
notify_held(d, pm) ==
    Fired("on_held", Len(store) + 1, StoreAfterAppend(pm),
          Append(held, Len(recs) + 1), Append(recs, NewHeld(Len(store) + 1)), pc[d], sent[d])

\* lines 162-163: on_forwarded(proxy_msg), called once destination.write returned
on_forwarded(d) ==
    Fired("on_forwarded", proxy_msg[d], store, held, recs, pc[d], Append(sent[d], proxy_msg[d]))

\* "await source.read()" raises: the peer is gone or the adapter was closed
ForwardReadClosed(d) ==
    /\ pipeline = "running"
    /\ pc[d] = "read"
    /\ pc' = TaskGroupAbort(d)
    /\ UNCHANGED << proxy_msg, heldref, session_message >>
    /\ UNCHANGED << engineVars, captureVars, writeVars, uiVars, sessionVars, replayVars, stdioVars, fileVars >>

\* variant: a release made before the loop waits does not spare it the wait
HoldMessageSuspends(d, raw, pm, cb) ==
    LET pos == Len(store) + 1
        r   == Len(recs) + 1
    IN
    /\ IF cb.action = None
       THEN hold(pos)
       ELSE /\ recs' = Append(recs, Stamp(NewHeld(pos), cb.action, cb.modified_raw))
            /\ calls' = Append(calls, << Call(cb.action, "caller") >>)
            /\ held' = held
    /\ seen' = Append(seen, None)
    /\ store' = Append(store, pm)
    /\ pc' = [pc EXCEPT ![d] = "wait"]
    /\ proxy_msg' = [proxy_msg EXCEPT ![d] = pos]
    /\ heldref' = [heldref EXCEPT ![d] = r]
    /\ session_message' = [session_message EXCEPT ![d] = raw]

\* lines 142-147 for a message that is held: hold, on_held, and either the loop
\* suspends in "await held.release.wait()" or, the record being released already,
\* wait() returns at once and lines 149-156 run
HoldMessage(d, raw, pm, cb) ==
    LET pos == Len(store) + 1
        r   == Len(recs) + 1
        h   == IF cb.action = None THEN NewHeld(pos)
               ELSE Stamp(NewHeld(pos), cb.action, cb.modified_raw)
    IN
    /\ IF cb.action = None
       THEN hold(pos)
       ELSE /\ recs' = Append(recs, h)
            /\ calls' = Append(calls, << Call(cb.action, "caller") >>)
            /\ held' = held
    /\ seen' = Append(seen, cb.action)
    /\ IF cb.action = None
       THEN /\ store' = Append(store, pm)
            /\ pc' = [pc EXCEPT ![d] = "wait"]
            /\ proxy_msg' = [proxy_msg EXCEPT ![d] = pos]
            /\ heldref' = [heldref EXCEPT ![d] = r]
            /\ session_message' = [session_message EXCEPT ![d] = raw]
       ELSE IF Dropped(h)
            THEN /\ store' = Append(store, pm)
                 /\ LoopToRead(d)
            ELSE /\ store' = Append(store, ApplyAction(pm, h))
                 /\ LoopToWrite(d, pos, r, ApplyPayload(raw, h))

\* lines 142-159 for a message that is not held
PassMessage(d, raw, pm) ==
    /\ store' = Append(store, pm)
    /\ seen' = Append(seen, None)
    /\ LoopToWrite(d, Len(store) + 1, NoRef, raw)
    /\ UNCHANGED << held, recs, calls >>

\* "await source.read()" returns a message: wrap, correlate, capture, notify,
\* intercept check, up to the next await (lines 124-147)
ReadFrom(d, msgs, bound) ==
    /\ pipeline = "running"
    /\ pc[d] = "read"
    /\ Len(store) < bound
    /\ \E raw \in msgs :
       LET pm == Correlate(_wrap_message(raw, d, STDIO), raw) IN
       /\ read_log' = [read_log EXCEPT ![d] = Append(@, raw)]
       /\ seq' = seq + 1
       /\ uuids' = uuids + 1
       /\ correlation_map' = CorrelateMap(pm, raw)
       /\ index' = MapPut(index, pm.id, Len(store) + 1)
       /\ callbacks' = [callbacks EXCEPT ![d] =
              @ \o << on_message(d, pm) >>
                \o (IF should_hold(pm) THEN << notify_held(d, pm) >> ELSE << >>)]
       /\ IF should_hold(pm)
          THEN \E cb \in OnHeld : HoldMessage(d, raw, pm, cb)
          ELSE PassMessage(d, raw, pm)
    /\ UNCHANGED << mode, writeVars, uiVars, sessionVars, replayVars, stdioVars, fileVars >>

ForwardRead(d) == ReadFrom(d, InMsgs, MaxMsgs)

\* lines 149-156 for a loop suspended in "await held.release.wait()": it reads
\* held.action and goes round or on to the write
AfterWait(d) ==
    /\ pipeline = "running"
    /\ pc[d] = "wait"
    /\ LET h == recs[heldref[d]]
           p == proxy_msg[d]
       IN
       /\ seen' = [seen EXCEPT ![p] = h.action]
       /\ IF Dropped(h)
          THEN /\ LoopToRead(d)
               /\ store' = store
          ELSE /\ store' = [store EXCEPT ![p] = ApplyAction(@, h)]
               /\ LoopToWrite(d, p, heldref[d], ApplyPayload(session_message[d], h))
    /\ UNCHANGED << index, seq, uuids, correlation_map, read_log, callbacks >>
    /\ UNCHANGED << engineVars, writeVars, uiVars, sessionVars, replayVars, stdioVars, fileVars >>

\* variant: the loop does not wait for the Event
ResumeUnreleased(d) == AfterWait(d)

\* "await held.release.wait()" returns once the Event is set (line 147)
ForwardResume(d) ==
    /\ pc[d] = "wait"
    /\ recs[heldref[d]].release
    /\ AfterWait(d)

\* "await destination.write(session_message)" returns; on_forwarded; the loop
\* goes round to "await source.read()"
ForwardWrite(d) ==
    /\ pipeline = "running"
    /\ pc[d] = "write"
    /\ write_queue' = [write_queue EXCEPT ![Destination(d)] =
                           Append(@, session_message[d])]
    /\ sent' = [sent EXCEPT ![d] = Append(@, proxy_msg[d])]
    /\ callbacks' = [callbacks EXCEPT ![d] = Append(@, on_forwarded(d))]
    /\ LoopToRead(d)
    /\ UNCHANGED << store, index, seq, uuids, correlation_map, read_log, seen >>
    /\ UNCHANGED << engineVars, uiVars, sessionVars, replayVars, stdioVars, fileVars >>

\* "await destination.write(session_message)" raises: the adapter was closed
ForwardWriteClosed(d) ==
    /\ pipeline = "running"
    /\ pc[d] = "write"
    /\ pc' = TaskGroupAbort(d)
    /\ UNCHANGED << proxy_msg, heldref, session_message >>
    /\ UNCHANGED << engineVars, captureVars, writeVars, uiVars, sessionVars, replayVars, stdioVars, fileVars >>

\* variant: run_pipeline forwards what is still held before it returns
PipelineReturnReleases ==
    /\ pipeline = "running"
    /\ \A d \in Direction : Stopped(d)
    /\ pipeline' = "returned"
    /\ recs' = [r \in DOMAIN recs |->
                  IF r \in Range(held) THEN Stamp(recs[r], FORWARD, NoneMsg) ELSE recs[r]]
    /\ held' = << >>
    /\ UNCHANGED << mode, calls, on_held >>
    /\ UNCHANGED << captureVars, loopVars, writeVars, uiVars, replayVars, stdioVars, fileVars >>

\* run_pipeline: the group exits when both tasks are done; "except* Exception: pass"
PipelineReturn ==
    /\ pipeline = "running"
    /\ \A d \in Direction : Stopped(d)
    /\ pipeline' = "returned"
    /\ UNCHANGED << on_held >>
    /\ UNCHANGED << engineVars, captureVars, loopVars, writeVars, uiVars, replayVars, stdioVars, fileVars >>

----------------------------------------------------------------------------
(* tui/app.py: the intercept controls of ProxyApp, present when the session's *)
(* callbacks are the UI's.  _get_selected_held() yields a record of          *)
(* engine.get_held(): r ranges over the held list.                           *)

action_toggle_intercept ==
    /\ on_held = "ui"
    /\ set_mode(IF mode = PASSTHROUGH THEN INTERCEPT ELSE PASSTHROUGH)
    /\ UNCHANGED << captureVars, loopVars, writeVars, uiVars, sessionVars, replayVars, stdioVars, fileVars >>

action_forward(r) ==
    /\ on_held = "ui"
    /\ ~editing
    /\ r \in Range(held)
    /\ release(r, FORWARD, NoneMsg)
    /\ UNCHANGED << mode, captureVars, loopVars, writeVars, uiVars, sessionVars, replayVars, stdioVars, fileVars >>

action_drop(r) ==
    /\ on_held = "ui"
    /\ ~editing
    /\ r \in Range(held)
    /\ release(r, DROP, NoneMsg)
    /\ UNCHANGED << mode, captureVars, loopVars, writeVars, uiVars, sessionVars, replayVars, stdioVars, fileVars >>

action_modify(r) ==
    /\ on_held = "ui"
    /\ ~editing
    /\ r \in Range(held)
    /\ editing' = TRUE
    /\ editing_held' = r
    /\ UNCHANGED << engineVars, captureVars, loopVars, writeVars, sessionVars, replayVars, stdioVars, fileVars >>

\* the edited text parses to the message m
action_confirm_modify(m) ==
    /\ on_held = "ui"
    /\ editing
    /\ editing_held # NoRef
    /\ release(editing_held, MODIFY, m)
    /\ editing' = FALSE
    /\ editing_held' = NoRef
    /\ UNCHANGED << mode, captureVars, loopVars, writeVars, sessionVars, replayVars, stdioVars, fileVars >>

action_cancel_modify ==
    /\ on_held = "ui"
    /\ editing
    /\ editing_held # NoRef
    /\ release(editing_held, FORWARD, NoneMsg)
    /\ editing' = FALSE
    /\ editing_held' = NoRef
    /\ UNCHANGED << mode, captureVars, loopVars, writeVars, sessionVars, replayVars, stdioVars, fileVars >>

----------------------------------------------------------------------------
(* replay.py: replay_messages re-sends captured messages to a server adapter. *)
(* It talks to the adapter through the TransportAdapter protocol only: a      *)
(* write is accepted or raises, a read returns the server's next message or   *)
(* raises, and asyncio.wait_for may cancel a suspended read at any moment     *)
(* once the timeout has run out.                                              *)

\* the reserved id "__handshake__": a string that is the id of no captured message
_HANDSHAKE_ID == StrId(0)

\* _send_handshake: the two synthetic messages
init_request == JSONRPCRequest(_HANDSHAKE_ID, "initialize")
init_notification == JSONRPCNotification("notifications/initialized")

\* ReplayResult.error; the f-strings by their fixed part
WriteFailed == "Write failed"
TimeoutAfter == "Timeout after"
ReadFailed == "Read failed"

\* a ProxyMessage as _wrap_message leaves it: the fields replay reads
Envelope(raw, direction) ==
    [ direction |-> direction,
      raw |-> raw,
      jsonrpc_id |-> extract_jsonrpc_id(raw),
      method |-> extract_method(raw) ]

\* pipeline.py lines 152-155: raw replaced by the user's edit, jsonrpc_id and method kept
Edited(pm, raw) == [pm EXCEPT !.raw = raw]

\* the captured envelopes a replay is given in the model
ReplayEnvelopes ==
    { Envelope(JSONRPCRequest(IntId(1), "tools/list"), CLIENT_TO_SERVER),
      Envelope(JSONRPCRequest(StrId(1), "initialize"), CLIENT_TO_SERVER),
      Envelope(JSONRPCNotification("notifications/cancelled"), CLIENT_TO_SERVER),
      Envelope(JSONRPCResponse(IntId(1)), SERVER_TO_CLIENT),
      Edited(Envelope(JSONRPCRequest(IntId(1), "tools/list"), CLIENT_TO_SERVER),
             JSONRPCRequest(IntId(2), "tools/call")) }

\* what the server sends during a replay in the model
ServerMsgs ==
    { JSONRPCResponse(IntId(1)),
      JSONRPCResponse(StrId(1)),
      JSONRPCResponse(_HANDSHAKE_ID),
      JSONRPCNotification("notifications/message") }

ReplayResult(original_request, response, error) ==
    [ original_request |-> original_request,
      sent_message |-> original_request.raw,
      response |-> response,
      error |-> error ]

\* line 84
c2s_messages == SelectSeq(messages, LAMBDA m : m.direction = CLIENT_TO_SERVER)

\* variant: the handshake is sent whenever it is asked for
needs_handshake_unchecked == auto_handshake

\* lines 87-89
needs_handshake ==
    auto_handshake /\ (c2s_messages = << >> \/ c2s_messages[1].method # "initialize")

\* the for loop of lines 94-96: msg while the n+1st iteration runs, and where
\* the coroutine goes once n results are appended
Msg == c2s_messages[Len(results) + 1]
LoopTo(n) == IF n < Len(c2s_messages) THEN "write" ELSE "returned"

\* variant: the first message read is taken as the response
MatchesAny(response, expected_id) == TRUE

\* _read_response lines 228-229: the message read is the one waited for
Matches(response, expected_id) == extract_jsonrpc_id(response) = expected_id

\* the adapter's side of a call, k the iteration it is made in (0: the handshake)
AdapterWrite(m, k, ok) ==
    adapter_writes' = Append(adapter_writes, [message |-> m, for |-> k, ok |-> ok])
AdapterRead(m, k, ok) ==
    adapter_reads' = Append(adapter_reads, [message |-> m, for |-> k, ok |-> ok])
ReadsFor(k) == { j \in DOMAIN adapter_reads : adapter_reads[j].for = k }

\* replay_messages lines 83-93: up to the first await
replay_messages ==
    /\ replay_pc = "called"
    /\ replay_pc' = IF needs_handshake THEN "hs_initialize" ELSE LoopTo(0)
    /\ UNCHANGED << messages, auto_handshake, results, adapter_writes, adapter_reads >>
    /\ UNCHANGED << pipelineVars, stdioVars, fileVars >>

\* _send_handshake line 126: await adapter.write(init_request), not guarded
HandshakeInitialize(ok) ==
    /\ replay_pc = "hs_initialize"
    /\ AdapterWrite(init_request, 0, ok)
    /\ replay_pc' = IF ok THEN "hs_read" ELSE "raised"
    /\ UNCHANGED << messages, auto_handshake, results, adapter_reads >>
    /\ UNCHANGED << pipelineVars, stdioVars, fileVars >>

\* lines 129-130 with _read_response: a message arrives before the timeout
HandshakeRead(m) ==
    /\ replay_pc = "hs_read"
    /\ Len(adapter_reads) < MaxReads
    /\ AdapterRead(m, 0, TRUE)
    /\ replay_pc' = IF Matches(m, _HANDSHAKE_ID) THEN "hs_initialized" ELSE "hs_read"
    /\ UNCHANGED << messages, auto_handshake, results, adapter_writes >>
    /\ UNCHANGED << pipelineVars, stdioVars, fileVars >>

\* lines 129-130: adapter.read raises; only TimeoutError is suppressed
HandshakeReadFails ==
    /\ replay_pc = "hs_read"
    /\ AdapterRead(NoneMsg, 0, FALSE)
    /\ replay_pc' = "raised"
    /\ UNCHANGED << messages, auto_handshake, results, adapter_writes >>
    /\ UNCHANGED << pipelineVars, stdioVars, fileVars >>

\* lines 129-130: the timeout runs out, TimeoutError is suppressed
HandshakeTimeout ==
    /\ replay_pc = "hs_read"
    /\ replay_pc' = "hs_initialized"
    /\ UNCHANGED << messages, auto_handshake, results, adapter_writes, adapter_reads >>
    /\ UNCHANGED << pipelineVars, stdioVars, fileVars >>

\* line 138: await adapter.write(init_notification), not guarded
HandshakeInitialized(ok) ==
    /\ replay_pc = "hs_initialized"
    /\ AdapterWrite(init_notification, 0, ok)
    /\ replay_pc' = IF ok THEN LoopTo(0) ELSE "raised"
    /\ UNCHANGED << messages, auto_handshake, results, adapter_reads >>
    /\ UNCHANGED << pipelineVars, stdioVars, fileVars >>

\* results.append(result), and round the loop
AppendResult(result) ==
    /\ results' = Append(results, result)
    /\ replay_pc' = LoopTo(Len(results) + 1)

\* variant: a response is waited for after a notification too
ReplayWriteAwaitsAll(ok) ==
    /\ replay_pc = "write"
    /\ AdapterWrite(Msg.raw, Len(results) + 1, ok)
    /\ IF ~ok THEN AppendResult(ReplayResult(Msg, NoneMsg, WriteFailed))
       ELSE replay_pc' = "read" /\ UNCHANGED results
    /\ UNCHANGED << messages, auto_handshake, adapter_reads >>
    /\ UNCHANGED << pipelineVars, stdioVars, fileVars >>

\* variant: a failed write is not noticed and the response is waited for
ReplayWriteUnguarded(ok) ==
    /\ replay_pc = "write"
    /\ AdapterWrite(Msg.raw, Len(results) + 1, ok)
    /\ IF is_notification(Msg.raw)
       THEN AppendResult(ReplayResult(Msg, NoneMsg, None))
       ELSE replay_pc' = "read" /\ UNCHANGED results
    /\ UNCHANGED << messages, auto_handshake, adapter_reads >>
    /\ UNCHANGED << pipelineVars, stdioVars, fileVars >>

\* _replay_single lines 156-180: the write, and what follows without a further await
ReplayWrite(ok) ==
    /\ replay_pc = "write"
    /\ AdapterWrite(Msg.raw, Len(results) + 1, ok)
    /\ IF ~ok THEN AppendResult(ReplayResult(Msg, NoneMsg, WriteFailed))
       ELSE IF is_notification(Msg.raw) THEN AppendResult(ReplayResult(Msg, NoneMsg, None))
       ELSE replay_pc' = "read" /\ UNCHANGED results
    /\ UNCHANGED << messages, auto_handshake, adapter_reads >>
    /\ UNCHANGED << pipelineVars, stdioVars, fileVars >>

\* lines 183-192 with _read_response: a message arrives before the timeout
ReplayRead(m) ==
    /\ replay_pc = "read"
    /\ Len(adapter_reads) < MaxReads
    /\ AdapterRead(m, Len(results) + 1, TRUE)
    /\ IF Matches(m, Msg.jsonrpc_id)
       THEN AppendResult(ReplayResult(Msg, m, None))
       ELSE UNCHANGED << replay_pc, results >>
    /\ UNCHANGED << messages, auto_handshake, adapter_writes >>
    /\ UNCHANGED << pipelineVars, stdioVars, fileVars >>

\* lines 202-210: adapter.read raises
ReplayReadFails ==
    /\ replay_pc = "read"
    /\ AdapterRead(NoneMsg, Len(results) + 1, FALSE)
    /\ AppendResult(ReplayResult(Msg, NoneMsg, ReadFailed))
    /\ UNCHANGED << messages, auto_handshake, adapter_writes >>
    /\ UNCHANGED << pipelineVars, stdioVars, fileVars >>

\* variant: the timeout is not caught
ReplayTimeoutRaises ==
    /\ replay_pc = "read"
    /\ replay_pc' = "raised"
    /\ UNCHANGED << messages, auto_handshake, results, adapter_writes, adapter_reads >>
    /\ UNCHANGED << pipelineVars, stdioVars, fileVars >>

\* lines 193-201: the timeout runs out while the read is suspended
ReplayTimeout ==
    /\ replay_pc = "read"
    /\ AppendResult(ReplayResult(Msg, NoneMsg, TimeoutAfter))
    /\ UNCHANGED << messages, auto_handshake, adapter_writes, adapter_reads >>
    /\ UNCHANGED << pipelineVars, stdioVars, fileVars >>

\* no replay is running
ReplayIdle ==
    /\ messages = << >>
    /\ auto_handshake = FALSE
    /\ replay_pc = "idle"
    /\ results = << >>
    /\ adapter_writes = << >>
    /\ adapter_reads = << >>

----------------------------------------------------------------------------
(* adapters/stdio.py: StdioServerAdapter and StdioClientAdapter, the same     *)
(* code on the two sides.  Two bridge tasks move messages between the SDK's   *)
(* streams and two unbounded asyncio queues; read, write and close are called *)
(* by other tasks of the same event loop.  A put on an unbounded queue never  *)
(* suspends; it resolves the future of a suspended get, and the suspended     *)
(* task takes its item only when the event loop runs it again.                *)

\* the sentinel object, in a slot that holds a message
_STREAM_CLOSED == [kind |-> "STREAM_CLOSED", id |-> NoId, method |-> None]

\* RuntimeError("... is closed"), as the outcome of a call
ClosedError == [kind |-> "RuntimeError", id |-> NoId, method |-> None]

\* what the SDK's read stream yields: a message or an exception object
StreamException == [kind |-> "Exception", id |-> NoId, method |-> None]
StreamItems == { JSONRPCResponse(IntId(1)), JSONRPCNotification("notifications/message"),
                 StreamException }

\* what the caller writes in the model
WriteMsgs == { JSONRPCRequest(IntId(1), "tools/list") }

\* the tasks that call close
Closers == {"aexit", "other"}

\* asyncio.Queue.put_nowait on _read_queue: append, and wake the suspended get
Woken(r) == IF r.pc = "suspended" THEN [r EXCEPT !.pc = "woken"] ELSE r
Put(item) ==
    /\ _read_queue' = Append(_read_queue, item)
    /\ reader' = Woken(reader)

\* history: a call has ended with this outcome
Logged(entry) == adapter_log' = Append(adapter_log, entry)
ReadEntry(result, r) ==
    [op |-> "read", result |-> result, at_close |-> r.at_close, found_open |-> r.found_open]
WriteEntry(result) ==
    [op |-> "write", result |-> result, at_close |-> FALSE, found_open |-> ~_closed]
CloseEntry(found_open) ==
    [op |-> "close", result |-> NoneMsg, at_close |-> FALSE, found_open |-> found_open]

\* lines 105-108: what read does with the item it took from the queue
ReadOutcome(item) == IF item = _STREAM_CLOSED THEN ClosedError ELSE item

\* a caller is not in a read
ReaderIdle == [pc |-> "idle", at_close |-> FALSE, found_open |-> FALSE]

\* read lines 103-109, up to the await: raises on a closed adapter, takes the
\* first item of a queue that is not empty, suspends on an empty one
ReadCall ==
    /\ reader.pc = "idle"
    /\ Len(adapter_log) < MaxCalls
    /\ IF _closed
       THEN /\ Logged(ReadEntry(ClosedError, ReaderIdle))
            /\ UNCHANGED << _read_queue, reader >>
       ELSE IF _read_queue # << >>
       THEN /\ _read_queue' = Tail(_read_queue)
            /\ Logged(ReadEntry(ReadOutcome(Head(_read_queue)),
                                [ReaderIdle EXCEPT !.found_open = TRUE]))
            /\ UNCHANGED reader
       ELSE /\ reader' = [pc |-> "suspended", at_close |-> FALSE, found_open |-> TRUE]
            /\ UNCHANGED << _read_queue, adapter_log >>
    /\ UNCHANGED << _closed, _write_queue, _reader_task, _writer_task, read_stream,
                    write_stream, closer >>
    /\ UNCHANGED << pipelineVars, replayVars, fileVars >>

\* read lines 105-109, after the await: the woken get takes the first item
\* (asyncio.Queue.get: while self.empty(): await getter; return self.get_nowait())
ReadResume ==
    /\ reader.pc = "woken"
    /\ IF _read_queue = << >>
       THEN /\ reader' = [reader EXCEPT !.pc = "suspended"]
            /\ UNCHANGED << _read_queue, adapter_log >>
       ELSE /\ _read_queue' = Tail(_read_queue)
            /\ Logged(ReadEntry(ReadOutcome(Head(_read_queue)), reader))
            /\ reader' = ReaderIdle
    /\ UNCHANGED << _closed, _write_queue, _reader_task, _writer_task, read_stream,
                    write_stream, closer >>
    /\ UNCHANGED << pipelineVars, replayVars, fileVars >>

\* write lines 120-122
WriteCall(message) ==
    /\ Len(adapter_log) < MaxCalls
    /\ Logged(WriteEntry(IF _closed THEN ClosedError ELSE NoneMsg))
    /\ _write_queue' = IF _closed THEN _write_queue ELSE Append(_write_queue, message)
    /\ UNCHANGED << _closed, _read_queue, _reader_task, _writer_task, read_stream,
                    write_stream, reader, closer >>
    /\ UNCHANGED << pipelineVars, replayVars, fileVars >>

\* close lines 133-139: cancel the bridge tasks that are not done, one after
\* the other, and wait for each; where close goes from "from"
CloseTo(c, from) ==
    IF from = "start" /\ _reader_task # "done"
    THEN /\ _reader_task' = "cancelled"
         /\ closer' = [closer EXCEPT ![c] = "await_reader"]
         /\ UNCHANGED << _writer_task, adapter_log >>
    ELSE IF _writer_task # "done"
    THEN /\ _writer_task' = "cancelled"
         /\ closer' = [closer EXCEPT ![c] = "await_writer"]
         /\ UNCHANGED << _reader_task, adapter_log >>
    ELSE /\ closer' = [closer EXCEPT ![c] = "idle"]
         /\ Logged(CloseEntry(TRUE))
         /\ UNCHANGED << _reader_task, _writer_task >>

\* variant: close does not look at _closed
CloseCallUnchecked(c) ==
    /\ closer[c] = "idle"
    /\ Len(adapter_log) < MaxCalls
    /\ _closed' = TRUE
    /\ _read_queue' = Append(_read_queue, _STREAM_CLOSED)
    /\ reader' = IF reader.pc = "idle" THEN reader
                 ELSE [Woken(reader) EXCEPT !.at_close = TRUE]
    /\ CloseTo(c, "start")
    /\ UNCHANGED << _write_queue, read_stream, write_stream >>
    /\ UNCHANGED << pipelineVars, replayVars, fileVars >>

\* close lines 126-135, up to the first await
CloseCall(c) ==
    /\ closer[c] = "idle"
    /\ Len(adapter_log) < MaxCalls
    /\ IF _closed
       THEN /\ Logged(CloseEntry(FALSE))
            /\ UNCHANGED << _closed, _read_queue, reader, _reader_task, _writer_task, closer >>
       ELSE /\ _closed' = TRUE
            /\ _read_queue' = Append(_read_queue, _STREAM_CLOSED)
            /\ reader' = IF reader.pc = "idle" THEN reader
                         ELSE [Woken(reader) EXCEPT !.at_close = TRUE]
            /\ CloseTo(c, "start")
    /\ UNCHANGED << _write_queue, read_stream, write_stream >>
    /\ UNCHANGED << pipelineVars, replayVars, fileVars >>

\* close lines 134-139: the reader task has ended
CloseAfterReader(c) ==
    /\ closer[c] = "await_reader"
    /\ _reader_task = "done"
    /\ CloseTo(c, "reader")
    /\ UNCHANGED << _closed, _read_queue, _write_queue, read_stream, write_stream, reader >>
    /\ UNCHANGED << pipelineVars, replayVars, fileVars >>

\* close lines 138-139: the writer task has ended
CloseAfterWriter(c) ==
    /\ closer[c] = "await_writer"
    /\ _writer_task = "done"
    /\ closer' = [closer EXCEPT ![c] = "idle"]
    /\ Logged(CloseEntry(TRUE))
    /\ UNCHANGED << _closed, _read_queue, _write_queue, _reader_task, _writer_task,
                    read_stream, write_stream, reader >>
    /\ UNCHANGED << pipelineVars, replayVars, fileVars >>

\* _reader_loop lines 150-156: the stream yields an item
ReaderLoopItemUnfiltered(item) ==
    /\ _reader_task = "running"
    /\ Len(read_stream) < MaxStream
    /\ read_stream' = Append(read_stream, item)
    /\ IF _closed
       THEN /\ _reader_task' = "done"
            /\ UNCHANGED << _read_queue, reader >>
       ELSE Put(item) /\ UNCHANGED _reader_task
    /\ UNCHANGED << _closed, _write_queue, _writer_task, write_stream, closer, adapter_log >>
    /\ UNCHANGED << pipelineVars, replayVars, fileVars >>

ReaderLoopItem(item) ==
    /\ _reader_task = "running"
    /\ Len(read_stream) < MaxStream
    /\ read_stream' = Append(read_stream, item)
    /\ IF _closed
       THEN /\ _reader_task' = "done"
            /\ UNCHANGED << _read_queue, reader >>
       ELSE IF item = StreamException
       THEN UNCHANGED << _read_queue, reader, _reader_task >>
       ELSE Put(item) /\ UNCHANGED _reader_task
    /\ UNCHANGED << _closed, _write_queue, _writer_task, write_stream, closer, adapter_log >>
    /\ UNCHANGED << pipelineVars, replayVars, fileVars >>

\* _reader_loop lines 157-162: the stream ends or breaks
ReaderLoopEnds ==
    /\ _reader_task = "running"
    /\ _reader_task' = "done"
    /\ IF _closed THEN UNCHANGED << _read_queue, reader >> ELSE Put(_STREAM_CLOSED)
    /\ UNCHANGED << _closed, _write_queue, _writer_task, read_stream, write_stream,
                    closer, adapter_log >>
    /\ UNCHANGED << pipelineVars, replayVars, fileVars >>

\* _reader_loop cancelled by close: CancelledError passes the except clause,
\* the finally clause finds _closed set
ReaderLoopCancelled ==
    /\ _reader_task = "cancelled"
    /\ _reader_task' = "done"
    /\ UNCHANGED << _closed, _read_queue, _write_queue, _writer_task, read_stream,
                    write_stream, reader, closer, adapter_log >>
    /\ UNCHANGED << pipelineVars, replayVars, fileVars >>

\* _writer_loop lines 173-179: a message is taken from the queue and sent
WriterLoopSend ==
    /\ _writer_task = "running"
    /\ _write_queue # << >>
    /\ _write_queue' = Tail(_write_queue)
    /\ IF _closed
       THEN _writer_task' = "done" /\ UNCHANGED write_stream
       ELSE write_stream' = Append(write_stream, Head(_write_queue)) /\ UNCHANGED _writer_task
    /\ UNCHANGED << _closed, _read_queue, _reader_task, read_stream, reader, closer,
                    adapter_log >>
    /\ UNCHANGED << pipelineVars, replayVars, fileVars >>

\* _writer_loop cancelled by close
WriterLoopCancelled ==
    /\ _writer_task = "cancelled"
    /\ _writer_task' = "done"
    /\ UNCHANGED << _closed, _read_queue, _write_queue, _reader_task, read_stream,
                    write_stream, reader, closer, adapter_log >>
    /\ UNCHANGED << pipelineVars, replayVars, fileVars >>

\* __init__ and __aenter__: empty queues, both bridge tasks started
StdioEntered ==
    /\ _closed = FALSE
    /\ _read_queue = << >>
    /\ _write_queue = << >>
    /\ _reader_task = "running"
    /\ _writer_task = "running"
    /\ read_stream = << >>
    /\ write_stream = << >>
    /\ reader = ReaderIdle
    /\ closer = [c \in Closers |-> "idle"]
    /\ adapter_log = << >>

----------------------------------------------------------------------------
(* session_store.py: SessionStore.append, to_proxy_session, save and load.    *)
(* A JSON value is modelled by its type and its content; a JSON object is a   *)
(* record of its keys.  An enum member is modelled by its value, so .value    *)
(* and the lookup by value are the same string.  The file at the path is      *)
(* modelled by the text that is being written into it and by the number of    *)
(* chunks of that text it holds: the header, then one chunk per envelope.     *)

\* a datetime: seconds and microseconds (always timezone-aware, UTC)
Datetime(s, us) == [s |-> s, us |-> us]

\* JSON values
JNull == [j |-> "null", v |-> 0]
JNumber(n) == [j |-> "number", v |-> n]
JString(n) == [j |-> "string", v |-> n]

\* a Python int | str | None as a JSON value, and back
JsonOfId(i) ==
    IF i.t = "int" THEN JNumber(i.v)
    ELSE IF i.t = "str" THEN JString(i.v)
    ELSE JNull
IdOfJson(jv) ==
    IF jv.j = "number" THEN IntId(jv.v)
    ELSE IF jv.j = "string" THEN StrId(jv.v)
    ELSE NoId

\* a proxy id (str | None) as a JSON value, and back
JsonOfPid(pid) == IF pid = NonePid THEN JNull ELSE JString(pid)
PidOfJson(jv) == IF jv.j = "null" THEN NonePid ELSE jv.v

\* a str | None as a JSON value, and back
JsonOfStr(str) == IF str = None THEN [j |-> "null", v |-> None] ELSE [j |-> "string", v |-> str]
StrOfJson(jv) == IF jv.j = "null" THEN None ELSE jv.v

\* datetime.isoformat: the fraction is printed only when it is not zero
isoformat(dt) == [s |-> dt.s, fraction |-> dt.us # 0, digits |-> dt.us]
fromisoformat(iso) == Datetime(iso.s, IF iso.fraction THEN iso.digits ELSE 0)

\* raw.model_dump(by_alias=True, exclude_none=True): the keys of the message's class
model_dump(raw) ==
    IF raw.kind = "request"
    THEN [jsonrpc |-> "2.0", id |-> JsonOfId(raw.id), method |-> raw.method]
    ELSE IF raw.kind = "notification"
    THEN [jsonrpc |-> "2.0", method |-> raw.method]
    ELSE IF raw.kind = "response"
    THEN [jsonrpc |-> "2.0", id |-> JsonOfId(raw.id), result |-> "{}"]
    ELSE [jsonrpc |-> "2.0", id |-> JsonOfId(raw.id), error |-> "{}"]

\* JSONRPCMessage.model_validate(payload): the class of the union that the keys fit
model_validate(payload) ==
    IF "method" \in DOMAIN payload
    THEN IF "id" \in DOMAIN payload
         THEN JSONRPCRequest(IdOfJson(payload.id), payload.method)
         ELSE JSONRPCNotification(payload.method)
    ELSE IF "result" \in DOMAIN payload
         THEN JSONRPCResponse(IdOfJson(payload.id))
         ELSE JSONRPCError(IdOfJson(payload.id))

\* to_proxy_session lines 88-104: one entry of messages
Entry(msg) ==
    LET entry == [ proxy_id |-> JString(msg.id),
                   sequence |-> JNumber(msg.sequence),
                   timestamp |-> isoformat(msg.timestamp),
                   direction |-> msg.direction,
                   transport |-> msg.transport,
                   jsonrpc_id |-> JsonOfId(msg.jsonrpc_id),
                   method |-> JsonOfStr(msg.method),
                   correlated_id |-> JsonOfPid(msg.correlated_id),
                   modified |-> msg.modified,
                   payload |-> model_dump(msg.raw) ]
    IN  IF msg.original_raw # NoneMsg
        THEN entry @@ [original_payload |-> model_dump(msg.original_raw)]
        ELSE entry

\* to_proxy_session, then model_dump_json: the session document
to_proxy_session(self) ==
    [ id |-> JString(self.session_id),
      started_at |-> isoformat(self.started_at),
      ended_at |-> JNull,
      transport |-> self.transport,
      server_command |-> JsonOfStr(self.server_command),
      server_url |-> JsonOfStr(self.server_url),
      messages |-> [i \in DOMAIN self._messages |-> Entry(self._messages[i])],
      metadata |-> self.metadata ]

\* load lines 148-165: the ProxyMessage of one entry
ProxyMessageOfAsText(entry) ==
    [ id |-> entry.proxy_id.v,
      sequence |-> entry.sequence.v,
      timestamp |-> fromisoformat(entry.timestamp),
      direction |-> entry.direction,
      transport |-> entry.transport,
      raw |-> model_validate(entry.payload),
      jsonrpc_id |-> IF entry.jsonrpc_id.j = "null" THEN NoId ELSE StrId(entry.jsonrpc_id.v),
      method |-> StrOfJson(entry.method),
      correlated_id |-> PidOfJson(entry.correlated_id),
      modified |-> entry.modified,
      original_raw |-> IF "original_payload" \in DOMAIN entry
                       THEN model_validate(entry.original_payload)
                       ELSE NoneMsg ]
ProxyMessageOf(entry) ==
    [ id |-> entry.proxy_id.v,
      sequence |-> entry.sequence.v,
      timestamp |-> fromisoformat(entry.timestamp),
      direction |-> entry.direction,
      transport |-> entry.transport,
      raw |-> model_validate(entry.payload),
      jsonrpc_id |-> IdOfJson(entry.jsonrpc_id),
      method |-> StrOfJson(entry.method),
      correlated_id |-> PidOfJson(entry.correlated_id),
      modified |-> entry.modified,
      original_raw |-> IF "original_payload" \in DOMAIN entry
                       THEN model_validate(entry.original_payload)
                       ELSE NoneMsg ]

\* SessionStore.__init__
SessionStore(session_id, transport, server_command, server_url, metadata, started_at) ==
    [ session_id |-> session_id,
      transport |-> transport,
      server_command |-> server_command,
      server_url |-> server_url,
      metadata |-> IF metadata = None THEN "{}" ELSE metadata,
      started_at |-> started_at,
      _messages |-> << >> ]

\* SessionStore.append
appended(self, message) == [self EXCEPT !._messages = Append(@, message)]

\* load lines 138-167, given the document that the text parses to
RECURSIVE AppendAll(_, _, _)
AppendAll(store_, entries, n) ==
    IF n = 0 THEN store_
    ELSE appended(AppendAll(store_, entries, n - 1), ProxyMessageOf(entries[n]))

load(session) ==
    AppendAll(SessionStore(session.id.v, session.transport,
                           StrOfJson(session.server_command),
                           StrOfJson(session.server_url),
                           session.metadata,
                           fromisoformat(session.started_at)),
              session.messages, Len(session.messages))

\* no store in a slot that holds one
NoStore == [session_id |-> None]

\* the file: absent, or the first chunks of a text
NoText == [id |-> JNull]
Absent == [exists |-> FALSE, text |-> NoText, chunks |-> 0]
File(json_text, n) == [exists |-> TRUE, text |-> json_text, chunks |-> n]
Chunks(json_text) == IF json_text = NoText THEN 0 ELSE 1 + Len(json_text.messages)
WholeFile(json_text) == File(json_text, Chunks(json_text))
IsWhole(file) == file.exists /\ file.text # NoText /\ file.chunks = Chunks(file.text)

\* what the pipeline appends to the store it created: the payload read, its
\* direction, the microseconds of the clock, and the payload of a MODIFY or None
StoreInputs ==
    { [raw |-> JSONRPCRequest(IntId(1), "tools/list"), direction |-> CLIENT_TO_SERVER,
       us |-> 0, modified_raw |-> NoneMsg],
      [raw |-> JSONRPCRequest(StrId(1), "tools/list"), direction |-> CLIENT_TO_SERVER,
       us |-> 250000, modified_raw |-> NoneMsg],
      [raw |-> JSONRPCRequest(IntId(1), "tools/list"), direction |-> CLIENT_TO_SERVER,
       us |-> 250000, modified_raw |-> JSONRPCRequest(IntId(2), "tools/call")],
      [raw |-> JSONRPCResponse(IntId(1)), direction |-> SERVER_TO_CLIENT,
       us |-> 250000, modified_raw |-> NoneMsg],
      [raw |-> JSONRPCError(StrId(1)), direction |-> SERVER_TO_CLIENT,
       us |-> 0, modified_raw |-> NoneMsg],
      [raw |-> JSONRPCNotification("notifications/initialized"),
       direction |-> CLIENT_TO_SERVER, us |-> 0, modified_raw |-> NoneMsg] }

\* what is appended to a store that load returned
LoadedInputs ==
    { [raw |-> JSONRPCNotification("notifications/initialized"),
       direction |-> CLIENT_TO_SERVER, us |-> 0, modified_raw |-> NoneMsg] }

\* the ProxyMessage the pipeline makes of an input when the store holds msgs:
\* _wrap_message with its timestamp, correlation with the request just before,
\* and the MODIFY release
Stamped(input, msgs) ==
    LET n == Len(msgs) + 1
        pm == [ id |-> n,
                sequence |-> n - 1,
                timestamp |-> Datetime(n, input.us),
                direction |-> input.direction,
                transport |-> STDIO,
                raw |-> input.raw,
                jsonrpc_id |-> extract_jsonrpc_id(input.raw),
                method |-> extract_method(input.raw),
                correlated_id |->
                    IF /\ is_response(input.raw)
                       /\ n > 1
                       /\ is_request(msgs[n - 1].raw)
                       /\ msgs[n - 1].jsonrpc_id = extract_jsonrpc_id(input.raw)
                    THEN msgs[n - 1].id
                    ELSE NonePid,
                modified |-> FALSE,
                original_raw |-> NoneMsg ]
    IN  ApplyAction(pm, [action |-> IF input.modified_raw = NoneMsg THEN FORWARD ELSE MODIFY,
                         modified_raw |-> input.modified_raw])

\* a session file left by an earlier run
OldStore ==
    appended(SessionStore("s0", STDIO, "python old.py", None, None, Datetime(0, 0)),
             Stamped([raw |-> JSONRPCNotification("notifications/initialized"),
                      direction |-> CLIENT_TO_SERVER, us |-> 0, modified_raw |-> NoneMsg],
                     << >>))

\* a call has ended or none was made
SaveOver == save_pc \in {"idle", "returned", "raised"}

\* the pipeline appends to the store it created (pipeline.py line 136)
append_fresh(input) ==
    /\ SaveOver
    /\ Len(fresh._messages) < MaxStored
    /\ fresh' = appended(fresh, Stamped(input, fresh._messages))
    /\ UNCHANGED << loaded, path, save_pc, text, saves, path_at_call, saved >>
    /\ UNCHANGED << pipelineVars, replayVars, stdioVars >>

\* append called on the store that load returned
append_loaded(input) ==
    /\ loaded # NoStore
    /\ Len(loaded._messages) < MaxStored
    /\ loaded' = appended(loaded, Stamped(input, loaded._messages))
    /\ UNCHANGED << fresh, path, save_pc, text, saves, path_at_call, saved >>
    /\ UNCHANGED << pipelineVars, replayVars, stdioVars >>

\* save is called on the fresh store
SaveCall ==
    /\ SaveOver
    /\ saves < MaxSaves
    /\ saves' = saves + 1
    /\ save_pc' = "mkdir"
    /\ path_at_call' = path
    /\ UNCHANGED << fresh, loaded, path, text, saved >>
    /\ UNCHANGED << pipelineVars, replayVars, stdioVars >>

\* save line 124: path.parent.mkdir, which may raise
SaveMkdir(ok) ==
    /\ save_pc = "mkdir"
    /\ save_pc' = IF ok THEN "encode" ELSE "raised"
    /\ UNCHANGED << fresh, loaded, path, text, saves, path_at_call, saved >>
    /\ UNCHANGED << pipelineVars, replayVars, stdioVars >>

\* save lines 125-126: to_proxy_session and model_dump_json
SaveEncode ==
    /\ save_pc = "encode"
    /\ text' = to_proxy_session(fresh)
    /\ save_pc' = "open"
    /\ UNCHANGED << fresh, loaded, path, saves, path_at_call, saved >>
    /\ UNCHANGED << pipelineVars, replayVars, stdioVars >>

\* save line 126, path.write_text: the file is opened for writing, which
\* truncates it, or the open raises
SaveOpen(ok) ==
    /\ save_pc = "open"
    /\ IF ok
       THEN /\ path' = File(text, 0)
            /\ saved' = NoStore
            /\ save_pc' = "write"
       ELSE /\ save_pc' = "raised"
            /\ UNCHANGED << path, saved >>
    /\ UNCHANGED << fresh, loaded, text, saves, path_at_call >>
    /\ UNCHANGED << pipelineVars, replayVars, stdioVars >>

\* save line 126, path.write_text: the text is written and the file closed, or
\* the write raises after n chunks
SaveWrite(n) ==
    /\ save_pc = "write"
    /\ n \in 0..Chunks(text)
    /\ path' = File(text, n)
    /\ IF n = Chunks(text)
       THEN save_pc' = "returned" /\ saved' = fresh
       ELSE save_pc' = "raised" /\ UNCHANGED saved
    /\ UNCHANGED << fresh, loaded, text, saves, path_at_call >>
    /\ UNCHANGED << pipelineVars, replayVars, stdioVars >>

\* load returns a store: the file holds a whole document
Load ==
    /\ loaded = NoStore
    /\ IsWhole(path)
    /\ loaded' = load(path.text)
    /\ UNCHANGED << fresh, path, save_pc, text, saves, path_at_call, saved >>
    /\ UNCHANGED << pipelineVars, replayVars, stdioVars >>

\* no store was created for saving, no file is there
StoreIdle ==
    /\ fresh = SessionStore("s1", STDIO, None, None, None, Datetime(0, 0))
    /\ loaded = NoStore
    /\ path = Absent
    /\ save_pc = "idle"
    /\ text = NoText
    /\ saves = 0
    /\ path_at_call = Absent
    /\ saved = NoStore

----------------------------------------------------------------------------
(* The system: a fresh store and engine, run_pipeline entered on two open adapters *)

EmptyMap == [x \in {} |-> NonePid]

\* the pipeline's part of the state
PipelineInit ==
    /\ mode \in InterceptMode
    /\ held = << >>
    /\ recs = << >>
    /\ calls = << >>
    /\ store = << >>
    /\ index = EmptyMap
    /\ seq = 0
    /\ uuids = 0
    /\ correlation_map = EmptyMap
    /\ read_log = [d \in Direction |-> << >>]
    /\ seen = << >>
    /\ callbacks = [d \in Direction |-> << >>]
    /\ pc = [d \in Direction |-> "read"]
    /\ proxy_msg = [d \in Direction |-> NoRef]
    /\ heldref = [d \in Direction |-> NoRef]
    /\ session_message = [d \in Direction |-> NoneMsg]
    /\ write_queue = [a \in Adapters |-> << >>]
    /\ sent = [d \in Direction |-> << >>]
    /\ editing = FALSE
    /\ editing_held = NoRef
    /\ on_held \in {"ui", "observer"}
    /\ pipeline = "running"

Init ==
    /\ PipelineInit
    /\ ReplayIdle
    /\ StdioEntered
    /\ StoreIdle

Next ==
    \/ \E d \in Direction : ForwardReadClosed(d)
    \/ \E d \in Direction : ForwardRead(d)
    \/ \E d \in Direction : ForwardResume(d)
    \/ \E d \in Direction : ForwardWrite(d)
    \/ \E d \in Direction : ForwardWriteClosed(d)
    \/ PipelineReturn
    \/ action_toggle_intercept
    \/ \E r \in DOMAIN recs : action_forward(r)
    \/ \E r \in DOMAIN recs : action_drop(r)
    \/ \E r \in DOMAIN recs : action_modify(r)
    \/ \E m \in ModMsgs : action_confirm_modify(m)
    \/ action_cancel_modify

Spec == Init /\ [][Next]_vars

----------------------------------------------------------------------------
(* Observations used by the properties below *)

\* the HeldMessage objects created for the envelope at store position p
HeldOf(p) == { r \in DOMAIN recs : recs[r].proxy_message = p }

\* the actions of the release calls made on record r
Released(r) == { calls[r][i].action : i \in DOMAIN calls[r] }

\* the store positions of the envelopes of direction d, in store order
Positions(d) ==
    SelectSeq([i \in 1..Len(store) |-> i], LAMBDA i : store[i].direction = d)

\* the envelope at position p is the Ordinal(p)-th of its direction
Ordinal(p) == Cardinality({ q \in 1..p : store[q].direction = store[p].direction })

\* the message whose read produced the envelope at position p
ReadOf(p) == read_log[store[p].direction][Ordinal(p)]

\* the adapter at the receiving end of a direction (models.py, Direction)
Receiver(d) == IF d = CLIENT_TO_SERVER THEN "server" ELSE "client"

\* the envelope at position p has been written
Written(p) == \E i \in DOMAIN sent[store[p].direction] : sent[store[p].direction][i] = p

\* the payload that was written for the envelope at position p
WrittenOf(p) ==
    LET d == store[p].direction
        i == CHOOSE j \in DOMAIN sent[d] : sent[d][j] = p
    IN write_queue[Receiver(d)][i]

\* the last envelope of its direction
LastOfDirection(p) == \A q \in DOMAIN store : store[q].direction = store[p].direction => q <= p

----------------------------------------------------------------------------
(* C1: an envelope for which a held record was created is never written to  *)
(* the destination (nor handed to write) before release has been called on  *)
(* that record.                                                              *)

C1_NoWriteBeforeRelease ==
    /\ \A p \in DOMAIN store : Written(p) => \A r \in HeldOf(p) : calls[r] # << >>
    /\ \A d \in Direction :
          pc[d] = "write" /\ heldref[d] # NoRef => calls[heldref[d]] # << >>

\* an envelope was held while the loop waited, then released, then written
C1_HeldReleasedWritten ==
    /\ on_held = "ui"
    /\ \E p \in DOMAIN store : Written(p) /\ HeldOf(p) # {}

----------------------------------------------------------------------------
(* C2: an envelope whose held record is released with drop is never written *)
(* and never handed to write, it stays in the store as captured, and once   *)
(* the loop has seen the drop it is back at the read of its direction (or   *)
(* the run has stopped it).                                                  *)

C2_DroppedNeverWritten ==
    \A r \in DOMAIN recs :
       DROP \in Released(r) =>
          LET p == recs[r].proxy_message
              d == store[p].direction
          IN
          /\ p \in DOMAIN store
          /\ store[p].raw = ReadOf(p)
          /\ ~store[p].modified
          /\ ~Written(p)
          /\ ~(pc[d] = "write" /\ proxy_msg[d] = p)
          /\ seen[p] = DROP => proxy_msg[d] # p
          /\ seen[p] = DROP /\ LastOfDirection(p) =>
                pc[d] \in {"read", "raised", "cancelled"}

\* a dropped envelope is followed in the store by a later one of its direction
C2_DroppedThenNextRead ==
    \E r \in DOMAIN recs :
       /\ DROP \in Released(r)
       /\ on_held = "ui"
       /\ \E q \in DOMAIN store :
             /\ q > recs[r].proxy_message
             /\ store[q].direction = store[recs[r].proxy_message].direction

----------------------------------------------------------------------------
(* C3: for a held record released once, after the loop has read it: with    *)
(* modify(m) the envelope has raw = m, original_raw = the captured payload, *)
(* modified = true, and the payload handed to write and written is m; with  *)
(* forward the envelope keeps raw = the captured payload, modified = false, *)
(* no original_raw, and the captured payload is what is written.  In every *)
(* state an envelope has original_raw iff modified.                         *)

C3_ReleaseOutcome ==
    /\ \A p \in DOMAIN store : (store[p].original_raw # NoneMsg) <=> store[p].modified
    /\ \A r \in DOMAIN recs :
          LET p == recs[r].proxy_message
              d == store[p].direction
              m == recs[r].modified_raw
          IN
          Len(calls[r]) = 1 /\ seen[p] # None =>
             /\ calls[r][1].action = MODIFY =>
                   /\ store[p].raw = m
                   /\ store[p].original_raw = ReadOf(p)
                   /\ store[p].modified
                   /\ pc[d] = "write" /\ proxy_msg[d] = p => session_message[d] = m
                   /\ Written(p) => WrittenOf(p) = m
             /\ calls[r][1].action = FORWARD =>
                   /\ store[p].raw = ReadOf(p)
                   /\ store[p].original_raw = NoneMsg
                   /\ ~store[p].modified
                   /\ pc[d] = "write" /\ proxy_msg[d] = p => session_message[d] = ReadOf(p)
                   /\ Written(p) => WrittenOf(p) = ReadOf(p)

\* one held envelope was edited and written, another was forwarded and written
C3_ModifiedAndForwardedWritten ==
    /\ on_held = "ui"
    /\ \E r1, r2 \in DOMAIN recs :
          /\ calls[r1] = << Call(MODIFY, "caller") >>
          /\ calls[r2] = << Call(FORWARD, "caller") >>
          /\ Written(recs[r1].proxy_message)
          /\ Written(recs[r2].proxy_message)

----------------------------------------------------------------------------
(* C4: capture fidelity.  Every message returned by a read has exactly one  *)
(* envelope in the store, the envelopes of a direction are in the order of  *)
(* the reads, and raw (original_raw when modified) is the message read.     *)

C4_CaptureFidelity ==
    /\ Len(store) = Len(read_log[CLIENT_TO_SERVER]) + Len(read_log[SERVER_TO_CLIENT])
    /\ \A d \in Direction : Len(Positions(d)) = Len(read_log[d])
    /\ \A p \in DOMAIN store :
          (IF store[p].modified THEN store[p].original_raw ELSE store[p].raw) = ReadOf(p)
    /\ \A p, q \in DOMAIN store : store[p].id = store[q].id => p = q
    /\ \A p \in DOMAIN store : store[p].id \in DOMAIN index /\ index[store[p].id] = p

\* two different messages of one direction are in the store, one of them modified
C4_TwoCapturedOneModified ==
    \E p, q \in DOMAIN store :
       /\ p < q
       /\ store[p].direction = store[q].direction
       /\ ReadOf(p) # ReadOf(q)
       /\ store[p].modified

----------------------------------------------------------------------------
(* C5: monotonic sequence.  The sequence numbers of the envelopes in the    *)
(* store start at 0 and strictly increase in store order, across both       *)
(* directions.                                                               *)

C5_MonotonicSequence ==
    /\ store # << >> => store[1].sequence = 0
    /\ \A i, j \in DOMAIN store : i < j => store[i].sequence < store[j].sequence

\* the store holds envelopes of both directions, the server's first
C5_BothDirectionsCaptured ==
    /\ Len(store) = MaxMsgs
    /\ store[1].direction = SERVER_TO_CLIENT
    /\ store[2].direction = CLIENT_TO_SERVER

----------------------------------------------------------------------------
(* Capture and correlation on their own: the peers send any class of        *)
(* message, the engine stays in passthrough, no adapter fails.              *)

ForwardReadAny(d) == ReadFrom(d, AnyMsgs, MaxCorrelated)

CorrelationInit == Init /\ mode = PASSTHROUGH /\ on_held = "observer"

CorrelationNext ==
    \/ \E d \in Direction : ForwardReadAny(d)
    \/ \E d \in Direction : ForwardWrite(d)

CorrelationSpec == CorrelationInit /\ [][CorrelationNext]_vars

----------------------------------------------------------------------------
(* C6: correlation correctness.  An envelope with correlated_id = X was     *)
(* read as a response or error; exactly one envelope has id X, it is        *)
(* earlier, it was read as a request (method present) and its id equals the *)
(* response's id in type and value.  A notification has no correlated_id    *)
(* and is no envelope's correlated_id.                                       *)

C6_Correlation ==
    \A p \in DOMAIN store :
       LET X == store[p].correlated_id IN
       /\ X # NonePid =>
             /\ ReadOf(p).kind \in {"response", "error"}
             /\ Cardinality({ q \in DOMAIN store : store[q].id = X }) = 1
             /\ \A q \in DOMAIN store :
                   store[q].id = X =>
                      /\ q < p
                      /\ ReadOf(q).kind = "request"
                      /\ store[q].method # None
                      /\ ReadOf(q).id = ReadOf(p).id
                      /\ store[q].jsonrpc_id = store[p].jsonrpc_id
       /\ ReadOf(p).kind = "notification" =>
             /\ X = NonePid
             /\ \A q \in DOMAIN store : store[q].correlated_id # store[p].id

\* an id was used by two requests before the error answer that was correlated
C6_ErrorCorrelatedAfterReuse ==
    /\ Len(store) = 3
    /\ store[1].jsonrpc_id = store[2].jsonrpc_id
    /\ store[1].method # None
    /\ store[2].method # None
    /\ store[3].correlated_id = store[2].id
    /\ ReadOf(3).kind = "error"

----------------------------------------------------------------------------
(* C7: per-direction ordering.  What the receiving adapter of a direction   *)
(* was given is, in order, the messages read in that direction with the     *)
(* dropped ones left out and the modified ones replaced: positions are      *)
(* written in increasing order, each payload is its envelope's raw, and an  *)
(* envelope passed over by a later one of its direction was dropped.        *)

C7_PerDirectionOrder ==
    \A d \in Direction :
       LET w == write_queue[Receiver(d)] IN
       /\ Len(w) = Len(sent[d])
       /\ \A i \in DOMAIN sent[d] :
             LET p == sent[d][i] IN
             /\ store[p].direction = d
             /\ w[i] = store[p].raw
             /\ seen[p] # DROP
             /\ ~store[p].modified => w[i] = ReadOf(p)
             /\ store[p].modified => w[i] \in ModMsgs
       /\ \A i, j \in DOMAIN sent[d] : i < j => sent[d][i] < sent[d][j]
       /\ \A p, q \in DOMAIN store :
             p < q /\ store[p].direction = d /\ store[q].direction = d /\ ~Written(p)
                => seen[p] = DROP

\* two envelopes of one direction were written, the first after being held
C7_HeldThenLaterWritten ==
    /\ on_held = "ui"
    /\ \E d \in Direction :
          /\ Len(sent[d]) = 2
          /\ HeldOf(sent[d][1]) # {}

----------------------------------------------------------------------------
(* The scheduling of the event loop.  A task that is ready runs: a loop whose *)
(* Event is set resumes, a write that was started completes or raises, and   *)
(* the TaskGroup exits once both tasks are done.  Nothing obliges a peer to  *)
(* send, the user to release, or an adapter to fail.                         *)

Fairness ==
    /\ \A d \in Direction : WF_vars(ForwardResume(d))
    /\ \A d \in Direction : WF_vars(ForwardWrite(d) \/ ForwardWriteClosed(d))
    /\ WF_vars(PipelineReturn)

LiveSpec == Spec /\ Fairness

----------------------------------------------------------------------------
(* C8: shutdown.  Once a read or a write has raised in one loop,            *)
(* run_pipeline eventually returns, and whenever it has returned both loops *)
(* have stopped, whatever await the other loop was suspended in.            *)

C8_Shutdown ==
    /\ [](pipeline = "returned" => \A d \in Direction : Stopped(d))
    /\ (\E d \in Direction : pc[d] = "raised") ~> (pipeline = "returned")

\* the run has returned after a loop was cancelled on the rendezvous of an
\* unreleased held message
C8_ReturnedWithLoopCancelledInWait ==
    /\ pipeline = "returned"
    /\ \E d \in Direction :
          /\ pc[d] = "cancelled"
          /\ heldref[d] # NoRef
          /\ ~recs[heldref[d]].release

----------------------------------------------------------------------------
(* C9: mode switch drains.  A switch to passthrough releases every record   *)
(* of the held list with forward and empties the list; a message captured   *)
(* while the mode is passthrough gets no held record and goes to its write; *)
(* and each envelope the switch released is eventually written as captured, *)
(* unless the run stops its loop first, or a further release call replaced  *)
(* the action before the loop read it.                                      *)

\* the records the switch released, and nothing else released them
Drained(r) == r \in DOMAIN recs /\ calls[r] = << Call(FORWARD, "set_mode") >>

WrittenAsCaptured(r) ==
    /\ r \in DOMAIN recs
    /\ LET p == recs[r].proxy_message IN
       \/ Written(p) /\ WrittenOf(p) = ReadOf(p) /\ ~store[p].modified
       \/ Stopped(store[p].direction)
       \/ Len(calls[r]) > 1 /\ seen[p] = MODIFY

----------------------------------------------------------------------------
(* The engine on its own: any sequence of hold, release and set_mode calls, *)
(* release on any record created so far, held or not, with any action.      *)
(* No callback is installed and no pipeline runs.                           *)

EngineHold ==
    /\ Len(recs) < MaxMsgs
    /\ hold(Len(recs) + 1)
    /\ UNCHANGED << mode, captureVars, loopVars, writeVars, uiVars, sessionVars, replayVars, stdioVars, fileVars >>

\* the release calls made by callers so far
ReleaseCalls ==
    UNION { { << r, i >> : i \in { k \in DOMAIN calls[r] : calls[r][k].by = "caller" } } :
            r \in DOMAIN calls }

EngineRelease(r, action, modified_raw) ==
    /\ Cardinality(ReleaseCalls) < MaxReleases
    /\ release(r, action, modified_raw)
    /\ UNCHANGED << mode, captureVars, loopVars, writeVars, uiVars, sessionVars, replayVars, stdioVars, fileVars >>

EngineSetMode(m) ==
    /\ set_mode(m)
    /\ UNCHANGED << captureVars, loopVars, writeVars, uiVars, sessionVars, replayVars, stdioVars, fileVars >>

\* should_hold, get_held, get_state: the caller gets a value, the engine is as before
EngineQuery ==
    /\ should_hold(NoRef) \in BOOLEAN
    /\ get_held = held
    /\ get_state.held_messages = held
    /\ UNCHANGED vars

EngineNext ==
    \/ EngineHold
    \/ EngineQuery
    \/ \E r \in DOMAIN recs, a \in InterceptAction, m \in ModMsgs \cup {NoneMsg} :
          EngineRelease(r, a, m)
    \/ \E m \in InterceptMode : EngineSetMode(m)

EngineSpec == Init /\ [][EngineNext]_vars

----------------------------------------------------------------------------
(* C10: held-list invariant.  Every record in the held list is there once,  *)
(* has an unsignalled rendezvous, no action and no release call; every      *)
(* record whose rendezvous is signalled is absent from the list and carries *)
(* the action of the release call made on it (the latest, if several).      *)

C10_HeldListInvariant ==
    /\ \A i \in DOMAIN held :
          /\ held[i] \in DOMAIN recs
          /\ ~recs[held[i]].release
          /\ recs[held[i]].action = None
          /\ calls[held[i]] = << >>
    /\ \A i, j \in DOMAIN held : held[i] = held[j] => i = j
    /\ \A r \in DOMAIN recs :
          recs[r].release =>
             /\ r \notin Range(held)
             /\ calls[r] # << >>
             /\ recs[r].action = calls[r][Len(calls[r])].action

\* one record has been released by a caller and another is still held
C10_OneReleasedOneHeld ==
    /\ held # << >>
    /\ \E r \in DOMAIN recs :
          /\ recs[r].release
          /\ calls[r][1].by = "caller"
          /\ recs[r].action = DROP

----------------------------------------------------------------------------
(* C11: the engine never releases on its own.  In every step, a record whose *)
(* rendezvous becomes signalled, or that leaves the held list, has had a     *)
(* release call in that step, by a caller or by set_mode switching to        *)
(* passthrough; a step that is a hold or a switch to intercept leaves every  *)
(* existing record as it was and the held records in the list.               *)

C11_NoReleaseByItself ==
    [][ /\ \A r \in DOMAIN recs :
              \/ ~recs[r].release /\ recs'[r].release
              \/ r \in Range(held) /\ r \notin Range(held')
              => /\ Len(calls'[r]) = Len(calls[r]) + 1
                 /\ calls'[r][Len(calls'[r])].by = "set_mode" => mode' = PASSTHROUGH
        /\ Len(recs') > Len(recs) \/ (mode = PASSTHROUGH /\ mode' = INTERCEPT) =>
              /\ \A r \in DOMAIN recs : recs'[r] = recs[r] /\ calls'[r] = calls[r]
              /\ \A i \in DOMAIN held : held'[i] = held[i] ]_vars

\* two records are held and unreleased while the mode is intercept: the second
\* hold left the first in place
C11_TwoHeldUnreleased ==
    /\ mode = INTERCEPT
    /\ Len(held) = 2
    /\ \A i \in DOMAIN held : ~recs[held[i]].release /\ recs[held[i]].action = None

----------------------------------------------------------------------------
(* C12: a message is held iff the mode is intercept when it is captured.    *)
(* The step that captures a message creates a held record for it exactly    *)
(* when the mode is intercept in that step; captured in passthrough, the    *)
(* message goes straight to its write, its loop never waits on a rendezvous *)
(* for it, and the write can complete whatever the mode has become since.   *)

C12_HeldIffInterceptAtCapture ==
    /\ [][ Len(store') > Len(store) =>
              /\ mode = INTERCEPT <=> Len(recs') = Len(recs) + 1
              /\ mode = INTERCEPT => recs'[Len(recs')].proxy_message = Len(store')
              /\ mode = PASSTHROUGH =>
                    /\ recs' = recs /\ held' = held
                    /\ \E d \in Direction :
                          pc[d] = "read" /\ pc'[d] = "write" /\ proxy_msg'[d] = Len(store') ]_vars
    /\ [](\A d \in Direction :
            /\ pc[d] = "wait" => HeldOf(proxy_msg[d]) # {}
            /\ pc[d] = "write" /\ HeldOf(proxy_msg[d]) = {} /\ pipeline = "running" =>
                  /\ heldref[d] = NoRef
                  /\ seen[proxy_msg[d]] = None
                  /\ ENABLED ForwardWrite(d))

\* a message captured in passthrough is at its write, not held, after the mode
\* was switched to intercept
C12_SwitchedBeforeWrite ==
    /\ mode = INTERCEPT
    /\ \E d \in Direction :
          /\ pc[d] = "write"
          /\ HeldOf(proxy_msg[d]) = {}
----------------------------------------------------------------------------
(* ReplaySpec: replay_messages called once, on any list of at most MaxReplay  *)
(* captured envelopes, with and without auto_handshake, against an adapter    *)
(* whose writes and reads may fail and whose server sends any of ServerMsgs   *)
(* or nothing.  The pipeline is not running.                                  *)

SeqsUpTo(S, n) == UNION { [1..k -> S] : k \in 0..n }

ReplayInit ==
    /\ PipelineInit
    /\ mode = PASSTHROUGH
    /\ on_held = "observer"
    /\ messages \in SeqsUpTo(ReplayEnvelopes, MaxReplay)
    /\ auto_handshake \in BOOLEAN
    /\ replay_pc = "called"
    /\ results = << >>
    /\ adapter_writes = << >>
    /\ adapter_reads = << >>
    /\ StdioEntered
    /\ StoreIdle

ReplayNext ==
    \/ replay_messages
    \/ \E ok \in BOOLEAN : HandshakeInitialize(ok)
    \/ \E m \in ServerMsgs : HandshakeRead(m)
    \/ HandshakeReadFails
    \/ HandshakeTimeout
    \/ \E ok \in BOOLEAN : HandshakeInitialized(ok)
    \/ \E ok \in BOOLEAN : ReplayWrite(ok)
    \/ \E m \in ServerMsgs : ReplayRead(m)
    \/ ReplayReadFails
    \/ ReplayTimeout

ReplaySpec == ReplayInit /\ [][ReplayNext]_vars

\* the input seen from outside: the positions of the client_to_server envelopes,
\* and the k-th of them
C2SPositions == { i \in DOMAIN messages : messages[i].direction = CLIENT_TO_SERVER }
KthC2S(k) == CHOOSE p \in C2SPositions : Cardinality({ q \in C2SPositions : q <= p }) = k
Captured(k) == messages[KthC2S(k)]

\* the call is over
ReplayOver == replay_pc \in {"returned", "raised"}

\* the last read made while waiting for the response of the k-th message
LastReadFor(k) == CHOOSE j \in ReadsFor(k) : \A i \in ReadsFor(k) : i <= j

\* the step makes one more call of write / one more read ends
WriteStep == Len(adapter_writes') = Len(adapter_writes) + 1
ReadStep == Len(adapter_reads') = Len(adapter_reads) + 1
NewWrite == adapter_writes'[Len(adapter_writes')]
NewRead == adapter_reads'[Len(adapter_reads')]
ResultStep == Len(results') = Len(results) + 1
NewResult == results'[Len(results')]

----------------------------------------------------------------------------
(* C13: replay ordering.  The results are, in the order of the input, one     *)
(* per client_to_server envelope and none for a server_to_client envelope;    *)
(* once the call is over, whatever responses, timeouts and failures occurred, *)
(* there is a result for each; no server_to_client envelope is written, and   *)
(* message k is written only when the results of the k-1 before it exist.     *)

C13_ReplayOrdering ==
    /\ [](/\ Len(results) <= Cardinality(C2SPositions)
          /\ \A i \in DOMAIN results : results[i].original_request = Captured(i)
          /\ ReplayOver => Len(results) = Cardinality(C2SPositions)
          /\ \A j \in DOMAIN adapter_writes :
                adapter_writes[j].for > 0 =>
                   /\ adapter_writes[j].for \in 1..Cardinality(C2SPositions)
                   /\ adapter_writes[j].message = Captured(adapter_writes[j].for).raw)
    /\ [][WriteStep /\ NewWrite.for > 0 => Len(results) = NewWrite.for - 1]_vars

\* the call is over, by an exception of the handshake, with no result for the
\* client_to_server envelope that follows a server_to_client one in the input
C13_OverWithoutResults ==
    /\ replay_pc = "raised"
    /\ Len(messages) = 2
    /\ messages[1].direction = SERVER_TO_CLIENT
    /\ messages[2].direction = CLIENT_TO_SERVER
    /\ results = << >>

----------------------------------------------------------------------------
(* C14: replay id matching.  A result with a response carries a response      *)
(* whose id is the jsonrpc_id of the envelope; the response is the message    *)
(* read in the step that made the result, the last one read for it; every     *)
(* message read earlier in that wait, or in a wait still going on, has        *)
(* another id, and is the response of no result.                              *)

C14_IdMatching ==
    /\ [](\A i \in DOMAIN results :
            results[i].response # NoneMsg =>
               /\ extract_jsonrpc_id(results[i].response) = Captured(i).jsonrpc_id
               /\ ReadsFor(i) # {}
               /\ adapter_reads[LastReadFor(i)].message = results[i].response
               /\ \A j \in ReadsFor(i) \ {LastReadFor(i)} :
                     extract_jsonrpc_id(adapter_reads[j].message) # Captured(i).jsonrpc_id)
    /\ [](replay_pc = "read" =>
            \A j \in ReadsFor(Len(results) + 1) :
               extract_jsonrpc_id(adapter_reads[j].message) # Captured(Len(results) + 1).jsonrpc_id)
    /\ [][ResultStep /\ NewResult.response # NoneMsg =>
             /\ ReadStep
             /\ NewRead.message = NewResult.response
             /\ NewRead.for = Len(results')]_vars

\* two results with a response each, the first after a message with another id
\* was read and discarded in its wait
C14_ResponseAfterDiscard ==
    /\ Len(results) = 2
    /\ results[1].response # NoneMsg
    /\ results[2].response # NoneMsg
    /\ Cardinality(ReadsFor(1)) = 2

----------------------------------------------------------------------------
(* C15: replay timeout.  When the wait for a response ends with no read       *)
(* ending (the timeout), the result of that message has no response and the   *)
(* timeout as its error, and the replay goes on: to the write of the next     *)
(* captured message, or to its return after the last one.  The timeout of the *)
(* handshake's wait leads to the second handshake message.                    *)

C15_TimeoutContinues ==
    /\ [][replay_pc = "read" /\ ~ReadStep =>
             /\ results' = Append(results,
                   [ original_request |-> Captured(Len(results) + 1),
                     sent_message |-> Captured(Len(results) + 1).raw,
                     response |-> NoneMsg,
                     error |-> TimeoutAfter ])
             /\ replay_pc' = IF Len(results') < Cardinality(C2SPositions)
                             THEN "write" ELSE "returned"]_vars
    /\ [][replay_pc = "hs_read" /\ ~ReadStep => replay_pc' = "hs_initialized"]_vars
    /\ [][replay_pc = "write" =>
             /\ WriteStep
             /\ NewWrite.message = Captured(Len(results) + 1).raw]_vars

\* the first message timed out and the second has been written
C15_TimedOutThenNextWritten ==
    /\ Len(results) >= 1
    /\ results[1].error = TimeoutAfter
    /\ results[1].response = NoneMsg
    /\ \E j \in DOMAIN adapter_writes : adapter_writes[j].for = 2 /\ adapter_writes[j].ok

----------------------------------------------------------------------------
(* C16: replay errors are values.  A write that fails for a captured message  *)
(* gives that message a result with no response and the write failure as its  *)
(* error, with no read made for it; a read that fails gives it a result with  *)
(* no response and the read failure as its error; either way the replay goes  *)
(* on with the next message, and nothing in the per-message loop makes the    *)
(* call raise.                                                                *)

C16_ErrorsAreValues ==
    /\ [][WriteStep /\ ~NewWrite.ok /\ NewWrite.for > 0 =>
             /\ results' = Append(results,
                   [ original_request |-> Captured(NewWrite.for),
                     sent_message |-> Captured(NewWrite.for).raw,
                     response |-> NoneMsg,
                     error |-> WriteFailed ])
             /\ ~ReadStep
             /\ replay_pc' = IF Len(results') < Cardinality(C2SPositions)
                             THEN "write" ELSE "returned"]_vars
    /\ [][ReadStep /\ ~NewRead.ok /\ NewRead.for > 0 =>
             /\ results' = Append(results,
                   [ original_request |-> Captured(NewRead.for),
                     sent_message |-> Captured(NewRead.for).raw,
                     response |-> NoneMsg,
                     error |-> ReadFailed ])
             /\ replay_pc' = IF Len(results') < Cardinality(C2SPositions)
                             THEN "write" ELSE "returned"]_vars
    /\ [][(replay_pc = "write" \/ replay_pc = "read") => replay_pc' # "raised"]_vars
    /\ [](\A j \in DOMAIN adapter_reads :
            adapter_reads[j].for > 0 =>
               \E w \in DOMAIN adapter_writes :
                  adapter_writes[w].for = adapter_reads[j].for /\ adapter_writes[w].ok)

\* the call returned after a failed write for the first message and a failed
\* read for the second
C16_WriteFailedThenReadFailed ==
    /\ replay_pc = "returned"
    /\ Len(results) = 2
    /\ results[1].error = WriteFailed
    /\ results[2].error = ReadFailed

----------------------------------------------------------------------------
(* C17: best-effort handshake.  Once the handshake has been started, the      *)
(* call does not end before every client_to_server message has been replayed  *)
(* and has its result: not when the initialize response does not arrive, and  *)
(* not when a read or a write of the handshake fails.                         *)

C17_BestEffortHandshake ==
    (\E j \in DOMAIN adapter_writes : adapter_writes[j].for = 0) /\ ReplayOver =>
        /\ replay_pc = "returned"
        /\ Len(results) = Cardinality(C2SPositions)
        /\ \A k \in 1..Cardinality(C2SPositions) :
              \E j \in DOMAIN adapter_writes : adapter_writes[j].for = k

\* the initialize response did not arrive, and the call returned a result for
\* each of two messages
C17_HandshakeTimedOutReplayDone ==
    /\ replay_pc = "returned"
    /\ Len(results) = 2
    /\ \E j \in DOMAIN adapter_writes : adapter_writes[j].for = 0
    /\ ReadsFor(0) = {}

----------------------------------------------------------------------------
(* C18: auto-handshake.  The writes the adapter sees are, at any moment, the  *)
(* first ones of a fixed sequence, and all of it once the call has returned.  *)

Observed == [j \in DOMAIN adapter_writes |-> adapter_writes[j].message]
CapturedRaws == [k \in 1..Cardinality(C2SPositions) |-> Captured(k).raw]
FirstIsInitialize == C2SPositions # {} /\ Captured(1).method = "initialize"
Synthetic ==
    << JSONRPCRequest(StrId(0), "initialize"),
       JSONRPCNotification("notifications/initialized") >>

\* the adapter sees the first messages of expected, and no synthetic message
\* where none is expected
ObservedIs(expected, handshake) ==
    /\ Len(Observed) <= Len(expected)
    /\ \A j \in DOMAIN Observed : Observed[j] = expected[j]
    /\ replay_pc = "returned" => Observed = expected
    /\ ~handshake => \A j \in DOMAIN adapter_writes : adapter_writes[j].for > 0

\* C18 as stated: with auto_handshake set and a first client_to_server message
\* that is not initialize, the adapter sees the initialize request with the id
\* "__handshake__", notifications/initialized, then the captured messages in
\* their order; with auto_handshake unset, or a first captured message
\* initialize, or no client_to_server message at all, it sees the captured
\* messages only and no synthetic message
C18_AutoHandshakeAsStated ==
    IF auto_handshake /\ C2SPositions # {} /\ ~FirstIsInitialize
    THEN ObservedIs(Synthetic \o CapturedRaws, TRUE)
    ELSE ObservedIs(CapturedRaws, FALSE)

\* C18 amended: as stated, except that with auto_handshake set and no
\* client_to_server message at all the two synthetic messages are written,
\* and nothing else
C18_AutoHandshake ==
    IF auto_handshake /\ ~FirstIsInitialize
    THEN ObservedIs(Synthetic \o CapturedRaws, TRUE)
    ELSE ObservedIs(CapturedRaws, FALSE)

\* the adapter has seen the two handshake messages and then two captured ones
C18_HandshakeThenTwoCaptured ==
    /\ replay_pc = "returned"
    /\ auto_handshake
    /\ Len(adapter_writes) = 4
    /\ \A j \in DOMAIN adapter_writes : adapter_writes[j].ok
    /\ adapter_writes[1].message.id = StrId(0)

----------------------------------------------------------------------------
(* StdioSpec: one stdio adapter after __aenter__, its two bridge tasks, a     *)
(* task that calls read, the caller's writes, and two tasks that call close,  *)
(* in any interleaving the event loop allows.                                 *)

StdioNext ==
    \/ ReadCall
    \/ ReadResume
    \/ \E m \in WriteMsgs : WriteCall(m)
    \/ \E c \in Closers : CloseCall(c)
    \/ \E c \in Closers : CloseAfterReader(c)
    \/ \E c \in Closers : CloseAfterWriter(c)
    \/ \E item \in StreamItems : ReaderLoopItem(item)
    \/ ReaderLoopEnds
    \/ ReaderLoopCancelled
    \/ WriterLoopSend
    \/ WriterLoopCancelled

StdioInit ==
    /\ PipelineInit
    /\ mode = PASSTHROUGH
    /\ on_held = "observer"
    /\ ReplayIdle
    /\ StdioEntered
    /\ StoreIdle

StdioSpec == StdioInit /\ [][StdioNext]_vars

\* the step ends a call, and the call it ends
CallEnds == Len(adapter_log') = Len(adapter_log) + 1
Ended == adapter_log'[Len(adapter_log')]

\* the adapter itself, without the callers' positions and the history
adapterState ==
    << _closed, _read_queue, _write_queue, _reader_task, _writer_task, write_stream >>

----------------------------------------------------------------------------
(* C19: close is idempotent.  No call of close ends with an error; a call of  *)
(* close on an adapter that is closed already changes nothing of the adapter  *)
(* and wakes nobody; once closed the adapter stays closed; a read called on   *)
(* the closed adapter fails with the closed error and takes nothing from the  *)
(* queue, whatever is queued; a write called on it fails with the closed      *)
(* error and enqueues nothing.                                                *)

C19_CloseIdempotent ==
    /\ [][_closed => _closed']_vars
    /\ [][CallEnds /\ Ended.op = "close" =>
             /\ Ended.result = NoneMsg
             /\ _closed'
             /\ _closed => adapterState' = adapterState /\ reader' = reader]_vars
    /\ [][CallEnds /\ Ended.op = "read" /\ reader.pc = "idle" /\ _closed =>
             /\ Ended.result = ClosedError
             /\ adapterState' = adapterState]_vars
    /\ [][CallEnds /\ Ended.op = "write" /\ _closed =>
             /\ Ended.result = ClosedError
             /\ adapterState' = adapterState]_vars

\* a message is still queued on the closed adapter after a second close, a read
\* and a write were called on it
C19_ClosedTwiceReadWriteRefused ==
    /\ _closed
    /\ \E i \in DOMAIN _read_queue : _read_queue[i] # _STREAM_CLOSED
    /\ \E i \in DOMAIN adapter_log :
          adapter_log[i].op = "close" /\ ~adapter_log[i].found_open
    /\ \E i \in DOMAIN adapter_log :
          /\ adapter_log[i].op = "read" /\ ~adapter_log[i].found_open
          /\ adapter_log[i].result = ClosedError
    /\ \E i \in DOMAIN adapter_log :
          /\ adapter_log[i].op = "write" /\ ~adapter_log[i].found_open
          /\ adapter_log[i].result = ClosedError

----------------------------------------------------------------------------
(* C20: a read that is suspended when close is called is woken and fails with *)
(* the closed error: once the adapter is closed no read is left waiting       *)
(* without a wake-up, and no read that was suspended at the call of close     *)
(* ends by returning a message.                                               *)

C20_SuspendedReadFails ==
    /\ _closed => reader.pc # "suspended"
    /\ \A i \in DOMAIN adapter_log :
          adapter_log[i].op = "read" /\ adapter_log[i].at_close =>
             adapter_log[i].result = ClosedError

\* a read was suspended on the empty queue when close was called, and failed
C20_WokenByClose ==
    \E i \in DOMAIN adapter_log :
       /\ adapter_log[i].op = "read"
       /\ adapter_log[i].at_close
       /\ adapter_log[i].result = ClosedError

----------------------------------------------------------------------------
(* C21: after the peer is gone (the reader bridge has ended on the end of the *)
(* stream) and every received message has been returned, every read fails     *)
(* with the closed error, the second and later ones too and also when close   *)
(* was never called: no read is left suspended on the empty queue of an       *)
(* adapter whose bridge has ended, and every read that ends there ends with   *)
(* the closed error.                                                          *)

PeerGone == _reader_task = "done" /\ ~_closed /\ _read_queue = << >>

C21_ReadAfterPeerGoneFails ==
    PeerGone => reader.pc # "suspended"

\* the first read after the end of the stream failed with the closed error on
\* an adapter that was never closed
C21_FirstReadAfterEofFailed ==
    /\ PeerGone
    /\ \E i \in DOMAIN adapter_log :
          /\ adapter_log[i].op = "read"
          /\ adapter_log[i].found_open
          /\ adapter_log[i].result = ClosedError

----------------------------------------------------------------------------
(* C22: on an adapter that has not been closed, successive reads return       *)
(* exactly the well-formed inbound messages, in the order they arrived:       *)
(* the messages the reads have returned so far, followed by the messages      *)
(* still queued, are the well-formed items the stream has yielded, in order;  *)
(* an exception item of the stream is neither returned nor raised by a read;  *)
(* and a read fails with the closed error only after every message that       *)
(* arrived before the end of the stream has been returned.                    *)

\* the well-formed messages the stream has yielded, in arrival order
Arrived == SelectSeq(read_stream, LAMBDA item : item # StreamException)

\* what the first n calls that ended as reads have returned or raised, in order
RECURSIVE ReadResults(_)
ReadResults(n) ==
    IF n = 0 THEN << >>
    ELSE IF adapter_log[n].op = "read"
         THEN Append(ReadResults(n - 1), adapter_log[n].result)
         ELSE ReadResults(n - 1)

Returned(n) == SelectSeq(ReadResults(n), LAMBDA r : r # ClosedError)
Queued == SelectSeq(_read_queue, LAMBDA item : item # _STREAM_CLOSED)

C22_ReadsInArrivalOrder ==
    ~_closed =>
       /\ Returned(Len(adapter_log)) \o Queued = Arrived
       /\ \A i \in DOMAIN adapter_log :
             adapter_log[i].op = "read" /\ adapter_log[i].result = ClosedError =>
                Returned(i) = Arrived

\* two different messages arrived around an exception item, the reads returned
\* both in order and the third read failed on the end of the stream
C22_TwoReturnedThenClosed ==
    /\ ~_closed
    /\ Len(read_stream) = 3
    /\ read_stream[2] = StreamException
    /\ Len(Arrived) = 2
    /\ Arrived[1] # Arrived[2]
    /\ Returned(Len(adapter_log)) = Arrived
    /\ \E i \in DOMAIN adapter_log :
          adapter_log[i].op = "read" /\ adapter_log[i].result = ClosedError

----------------------------------------------------------------------------
(* SessionSpec: a store the program created is appended to and saved, over a  *)
(* path where there is no file or the file of an earlier session; the save    *)
(* may fail at any of its steps; the file is loaded when it holds a whole     *)
(* document, and append is called on the loaded store.                        *)

SessionNext ==
    \/ \E input \in StoreInputs : append_fresh(input)
    \/ \E input \in LoadedInputs : append_loaded(input)
    \/ SaveCall
    \/ \E ok \in BOOLEAN : SaveMkdir(ok)
    \/ SaveEncode
    \/ \E ok \in BOOLEAN : SaveOpen(ok)
    \/ \E n \in 0..(MaxStored + 1) : SaveWrite(n)
    \/ Load

SessionInit ==
    /\ PipelineInit
    /\ mode = PASSTHROUGH
    /\ on_held = "observer"
    /\ ReplayIdle
    /\ StdioEntered
    /\ \E created \in { << None, None >>, << "python server.py", "note" >> } :
          fresh = SessionStore("s1", STDIO, created[1], None, created[2], Datetime(0, 250000))
    /\ loaded = NoStore
    /\ path \in {Absent, WholeFile(to_proxy_session(OldStore))}
    /\ save_pc = "idle"
    /\ text = NoText
    /\ saves = 0
    /\ path_at_call = Absent
    /\ saved = IF path = Absent THEN NoStore ELSE OldStore

SessionSpec == SessionInit /\ [][SessionNext]_vars

----------------------------------------------------------------------------
(* C23: save is atomic.  If a call of save fails at any step, a file that was *)
(* at the path keeps exactly the content it had when save was called; and at  *)
(* every point of a call of save the file holds the whole old document or the *)
(* whole new one, never an empty or partial one.                              *)

C23_AtomicSave ==
    path_at_call.exists =>
       /\ path = path_at_call \/ path = WholeFile(text)
       /\ save_pc = "raised" => path = path_at_call

\* a call of save returned and left the whole new document in the place of the
\* file of the earlier session
C23_SavedOverOldFile ==
    /\ save_pc = "returned"
    /\ path_at_call = WholeFile(to_proxy_session(OldStore))
    /\ path = WholeFile(text)
    /\ path # path_at_call

----------------------------------------------------------------------------
(* C24: session round trip.  The store that load returns from the file that   *)
(* save wrote has the session id, the transport, the target descriptor and    *)
(* the metadata of the saved store and as many envelopes in the same order,   *)
(* each equal to the saved one field by field: proxy id, sequence, timestamp, *)
(* direction, transport, jsonrpc_id with its int or str type, method,         *)
(* correlated_id, the modified flag, the raw payload and the original_raw     *)
(* payload; also for modified envelopes and for notifications.                *)

SameEnvelope(a, b) ==
    /\ a.id = b.id
    /\ a.sequence = b.sequence
    /\ a.timestamp = b.timestamp
    /\ a.direction = b.direction
    /\ a.transport = b.transport
    /\ a.jsonrpc_id = b.jsonrpc_id
    /\ a.method = b.method
    /\ a.correlated_id = b.correlated_id
    /\ a.modified = b.modified
    /\ a.raw = b.raw
    /\ a.original_raw = b.original_raw

SameSession(a, b) ==
    /\ a.session_id = b.session_id
    /\ a.transport = b.transport
    /\ a.server_command = b.server_command
    /\ a.server_url = b.server_url
    /\ a.metadata = b.metadata
    /\ Len(a._messages) = Len(b._messages)
    /\ \A i \in DOMAIN a._messages : SameEnvelope(a._messages[i], b._messages[i])

LoadReturns == loaded = NoStore /\ loaded' # NoStore

C24_RoundTrip == [][LoadReturns => SameSession(loaded', saved)]_vars

\* the loaded store holds a modified envelope with an integer id and an
\* envelope with a string id, from the file that a call of save wrote
C24_LoadedModifiedAndStringId ==
    /\ loaded # NoStore
    /\ loaded.session_id = "s1"
    /\ loaded.metadata = "note"
    /\ Len(loaded._messages) = 2
    /\ loaded._messages[1].modified
    /\ loaded._messages[1].jsonrpc_id = IntId(1)
    /\ loaded._messages[1].original_raw = JSONRPCRequest(IntId(1), "tools/list")
    /\ loaded._messages[2].jsonrpc_id = StrId(1)
    /\ loaded._messages[2].timestamp = Datetime(2, 0)

----------------------------------------------------------------------------
(* C25: a store obtained from load is frozen.  Append is not permitted on it  *)
(* and its envelope list never changes after load has returned; only the      *)
(* store that the program created accepts appends.                            *)

C25_LoadedIsFrozen == [][loaded # NoStore => loaded'._messages = loaded._messages]_vars

\* a store was loaded, and the store the program created accepted an append
\* after the save that wrote the file
C25_LoadedAndFreshAppended ==
    /\ loaded # NoStore
    /\ saved # NoStore
    /\ saved.session_id = "s1"
    /\ Len(fresh._messages) > Len(saved._messages)

----------------------------------------------------------------------------
(* C26: envelope invariants.  In every reachable state of a pipeline run each *)
(* envelope of the session store has jsonrpc_id present iff its raw message   *)
(* is a request, a response or an error, and method present iff its raw       *)
(* message is a request or a notification; also after the envelope was        *)
(* released with a modified payload of a different kind or id.                *)

HasId(message) == message.kind \in {"request", "response", "error"}
HasMethod(message) == message.kind \in {"request", "notification"}

CapturedRaw(pm) == IF pm.modified THEN pm.original_raw ELSE pm.raw

----------------------------------------------------------------------------
(* C27: notifications are fire-and-forget in replay.  Replaying a captured    *)
(* notification writes it and, the write having succeeded, produces the       *)
(* result (null response, null error) in the same step, without reading the   *)
(* adapter: no read is made for a notification, so a message that is pending  *)
(* at the adapter is not consumed and is read by the wait of the next         *)
(* request.                                                                   *)

C27_NotificationFireAndForget ==
    /\ [][WriteStep /\ NewWrite.for > 0 /\ is_notification(NewWrite.message) =>
             /\ NewWrite.message = Captured(NewWrite.for).raw
             /\ adapter_reads' = adapter_reads
             /\ ResultStep
             /\ NewWrite.ok => NewResult = ReplayResult(Captured(NewWrite.for), NoneMsg, None)
             /\ replay_pc' # "read"]_vars
    /\ [][ReadStep /\ NewRead.for > 0 => ~is_notification(Captured(NewRead.for).raw)]_vars

\* a notification was replayed with the result (null, null), and the response
\* that arrived next was read by the wait of the request after it
C27_NotificationThenAnsweredRequest ==
    /\ Len(results) = 2
    /\ is_notification(Captured(1).raw)
    /\ results[1] = ReplayResult(Captured(1), NoneMsg, None)
    /\ results[2].response = JSONRPCResponse(IntId(1))
    /\ Len(adapter_reads) = 1
    /\ adapter_reads[1].for = 2

----------------------------------------------------------------------------
(* C28: id reuse.  If two requests with the same jsonrpc_id are captured, in  *)
(* either direction, with no response of that id between them, then the       *)
(* earlier request is never referenced by the correlated_id of any envelope,  *)
(* and the next response captured with that id after the later request gets   *)
(* the proxy id of the later request as correlated_id.                        *)

RequestAt(i, x) == is_request(store[i].raw) /\ store[i].jsonrpc_id = x
ResponseAt(i, x) == is_response(store[i].raw) /\ store[i].jsonrpc_id = x
Between(i, j) == { m \in DOMAIN store : i < m /\ m < j }
StoredIds == { store[i].jsonrpc_id : i \in DOMAIN store } \ {NoId}

C28_IdReuse ==
    \A x \in StoredIds : \A i, j \in DOMAIN store :
       ( /\ i < j
         /\ RequestAt(i, x)
         /\ RequestAt(j, x)
         /\ \A m \in Between(i, j) : ~ResponseAt(m, x) ) =>
          /\ \A e \in DOMAIN store : store[e].correlated_id # store[i].id
          /\ \A k \in DOMAIN store :
                ( /\ j < k
                  /\ ResponseAt(k, x)
                  /\ \A m \in Between(j, k) : ~RequestAt(m, x) /\ ~ResponseAt(m, x) ) =>
                   store[k].correlated_id = store[j].id

\* two requests with the integer id 1 were captured from different sides, then
\* a response with that id, which refers to the second request
C28_ReusedThenAnswered ==
    /\ Len(store) = 3
    /\ RequestAt(1, IntId(1))
    /\ RequestAt(2, IntId(1))
    /\ store[1].direction # store[2].direction
    /\ ResponseAt(3, IntId(1))
    /\ store[3].correlated_id = store[2].id

----------------------------------------------------------------------------
(* C29: correlation entries are consumed on the first match.  Each request    *)
(* envelope is referenced by the correlated_id of at most one response        *)
(* envelope; a second response with the same jsonrpc_id, captured with no new *)
(* request of that id in between, has correlated_id null; and the correlation *)
(* map never holds an entry for an id whose latest request has been answered: *)
(* every entry is the proxy id of the latest request with that id, and no     *)
(* response with that id was captured after it.                               *)

C29_ConsumedOnFirstMatch ==
    /\ \A e1, e2 \in DOMAIN store :
          e1 # e2 /\ store[e1].correlated_id # NonePid =>
             store[e1].correlated_id # store[e2].correlated_id
    /\ \A x \in StoredIds : \A k1, k2 \in DOMAIN store :
          ( /\ k1 < k2
            /\ ResponseAt(k1, x)
            /\ ResponseAt(k2, x)
            /\ \A m \in Between(k1, k2) : ~RequestAt(m, x) ) =>
             store[k2].correlated_id = NonePid
    /\ \A x \in DOMAIN correlation_map :
          \E j \in DOMAIN store :
             /\ RequestAt(j, x)
             /\ correlation_map[x] = store[j].id
             /\ \A m \in DOMAIN store : m > j => ~RequestAt(m, x) /\ ~ResponseAt(m, x)

\* a request was answered by a response and then by an error with the same id:
\* the first refers to the request, the second to nothing, the map is empty
C29_AnsweredTwice ==
    /\ Len(store) = 3
    /\ RequestAt(1, IntId(1))
    /\ store[2].raw = JSONRPCResponse(IntId(1))
    /\ store[2].correlated_id = store[1].id
    /\ store[3].raw = JSONRPCError(IntId(1))
    /\ store[3].correlated_id = NonePid
    /\ DOMAIN correlation_map = {}

----------------------------------------------------------------------------
(* C30: modify changes only the payload.  The step in which a held envelope   *)
(* is released with modify and becomes modified leaves its id, sequence,      *)
(* direction, jsonrpc_id, method and correlated_id and its position in the    *)
(* session store unchanged, leaves every other envelope and the length of the *)
(* store unchanged, and leaves the correlation map unchanged; also when the   *)
(* modified payload carries another JSON-RPC id than the captured one.        *)

BecomesModified(p) == ~store[p].modified /\ store'[p].modified

C30_ModifyChangesOnlyPayload ==
    [][\A p \in DOMAIN store :
          BecomesModified(p) =>
             /\ store'[p].id = store[p].id
             /\ store'[p].sequence = store[p].sequence
             /\ store'[p].direction = store[p].direction
             /\ store'[p].transport = store[p].transport
             /\ store'[p].jsonrpc_id = store[p].jsonrpc_id
             /\ store'[p].method = store[p].method
             /\ store'[p].correlated_id = store[p].correlated_id
             /\ Len(store') = Len(store)
             /\ \A q \in DOMAIN store : q # p => store'[q] = store[q]
             /\ index' = index
             /\ correlation_map' = correlation_map]_vars

\* a request captured with the id 1 was released with a payload of the id 2:
\* the envelope and the correlation map still carry the id 1
C30_ModifiedToAnotherId ==
    \E p \in DOMAIN store :
       /\ store[p].modified
       /\ store[p].original_raw = JSONRPCRequest(IntId(1), "tools/list")
       /\ store[p].raw = JSONRPCRequest(IntId(2), "tools/call")
       /\ store[p].jsonrpc_id = IntId(1)
       /\ store[p].method = "tools/list"
       /\ MapGet(correlation_map, IntId(1)) = store[p].id
       /\ MapGet(correlation_map, IntId(2)) = NonePid

----------------------------------------------------------------------------
(* C31: a loop cancelled on a held record leaks it.  The step that cancels a  *)
(* forward loop and the step in which run_pipeline returns release nothing:   *)
(* they leave the held list and every held record as they are.  A record no   *)
(* caller has released, whose loop was cancelled while waiting on it, is      *)
(* still in the held list with its rendezvous unsignalled after run_pipeline  *)
(* has returned.  Once the run has returned, no step writes to an adapter,    *)
(* whatever release or set_mode is called then.                               *)

C31_CancelledHeldIsLeaked ==
    /\ [][(\E d \in Direction : pc[d] # "cancelled" /\ pc'[d] = "cancelled") =>
             recs' = recs /\ held' = held]_vars
    /\ [][pipeline = "running" /\ pipeline' = "returned" =>
             recs' = recs /\ held' = held]_vars
    /\ [](\A d \in Direction :
             ( /\ pc[d] = "cancelled"
               /\ heldref[d] # NoRef
               /\ calls[heldref[d]] = << >> ) =>
                /\ heldref[d] \in Range(held)
                /\ ~recs[heldref[d]].release)
    /\ [][pipeline = "returned" => write_queue' = write_queue /\ sent' = sent]_vars

\* the run has returned and the record of a loop that was cancelled in its
\* wait is still held and unsignalled, where the UI can release it or switch to
\* passthrough
C31_LeakedAfterReturn ==
    /\ pipeline = "returned"
    /\ on_held = "ui"
    /\ mode = INTERCEPT
    /\ \E d \in Direction :
          /\ pc[d] = "cancelled"
          /\ heldref[d] \in Range(held)
          /\ ~recs[heldref[d]].release
          /\ ENABLED action_forward(heldref[d])
          /\ ENABLED action_toggle_intercept

----------------------------------------------------------------------------
(* C32: observer callback order.  on_message is called once the envelope is *)
(* in the store and before any hold of it; on_held is called only for an    *)
(* envelope that is held, once its record is in the held list and before    *)
(* the loop waits; on_forwarded is called only once the write to the        *)
(* destination has returned, after on_message of the same envelope, and     *)
(* never for an envelope the loop dropped.                                  *)

\* the callback cb was called for the envelope at p before the i-th call of d
FiredBefore(d, i, cb, p) ==
    \E j \in 1..(i - 1) : callbacks[d][j].cb = cb /\ callbacks[d][j].p = p

\* C32: every callback call found the state the claim says it finds
C32_CallbackOrder ==
    \A d \in Direction : \A i \in DOMAIN callbacks[d] :
        LET e == callbacks[d][i] IN
        /\ e.cb = "on_message" =>
              /\ e.stored
              /\ ~e.record /\ ~e.in_held /\ ~e.waiting
              /\ ~FiredBefore(d, i, "on_held", e.p)
        /\ e.cb = "on_held" =>
              /\ e.record /\ e.in_held /\ ~e.waiting
              /\ HeldOf(e.p) # {}
              /\ FiredBefore(d, i, "on_message", e.p)
        /\ e.cb = "on_forwarded" =>
              /\ e.written /\ Written(e.p)
              /\ store[e.p].direction = d
              /\ FiredBefore(d, i, "on_message", e.p)
              /\ seen[e.p] # DROP

\* C32 witness: one envelope was held, released and written, with the three
\* callbacks in order; another was held and dropped, with no on_forwarded
C32_HeldForwardedAndDropped ==
    \E d \in Direction : \E p, q \in DOMAIN store :
        /\ HeldOf(p) # {} /\ seen[p] = FORWARD
        /\ \E i, j, k \in DOMAIN callbacks[d] :
              /\ i < j /\ j < k
              /\ callbacks[d][i].cb = "on_message" /\ callbacks[d][i].p = p
              /\ callbacks[d][j].cb = "on_held" /\ callbacks[d][j].p = p
              /\ callbacks[d][k].cb = "on_forwarded" /\ callbacks[d][k].p = p
        /\ seen[q] = DROP
        /\ \E x \in Direction : \E i \in DOMAIN callbacks[x] :
              callbacks[x][i].cb = "on_held" /\ callbacks[x][i].p = q
        /\ \A x \in Direction : \A i \in DOMAIN callbacks[x] :
              callbacks[x][i].p = q => callbacks[x][i].cb # "on_forwarded"

----------------------------------------------------------------------------
(* C33: no lost wakeup.  A record released before the loop starts to wait,  *)
(* that is inside on_held, does not suspend the loop: the loop goes on at   *)
(* once with the stamped action, to the write with the stamped payload or,  *)
(* for DROP, round to the next read.                                        *)

\* the record r was released by the on_held callback, before the loop's wait
ReleasedInCallback(r) ==
    /\ on_held = "observer"
    /\ calls[r] # << >>

\* the loop of direction d holds the envelope at p for its write, or wrote it
Proceeded(d, p) ==
    \/ Written(p)
    \/ proxy_msg[d] = p /\ (pc[d] = "write" \/ Stopped(d))

\* C33: no loop is suspended on, or has lost, a record released in the callback
C33_NoLostWakeup ==
    \A r \in DOMAIN recs :
        ReleasedInCallback(r) =>
            LET p == recs[r].proxy_message
                d == store[p].direction
                a == calls[r][1]
            IN
            /\ recs[r].release
            /\ ~(pc[d] = "wait" /\ heldref[d] = r)
            /\ seen[p] = a.action
            /\ a.action = DROP => ~Written(p) /\ ~(pc[d] = "write" /\ proxy_msg[d] = p)
            /\ a.action # DROP => Proceeded(d, p)
            /\ a.action = MODIFY => store[p].modified /\ store[p].raw = recs[r].modified_raw
            /\ a.action = FORWARD => ~store[p].modified /\ store[p].raw = ReadOf(p)

\* C33 witness: one record released in the callback with MODIFY was written
\* with the edited payload, another released with DROP was not written
C33_ModifiedAndDroppedInCallback ==
    \E r, s \in DOMAIN recs :
        /\ ReleasedInCallback(r) /\ ReleasedInCallback(s)
        /\ calls[r][1].action = MODIFY
        /\ Written(recs[r].proxy_message)
        /\ WrittenOf(recs[r].proxy_message) = recs[r].modified_raw
        /\ calls[s][1].action = DROP
        /\ pc[store[recs[s].proxy_message].direction] = "read"

----------------------------------------------------------------------------
(* C34: head-of-line blocking.  While an envelope of a direction is held    *)
(* and unreleased, no further message of that direction is read or appended *)
(* to the store; the held list has at most one record per direction, two in *)
(* all; the other direction keeps capturing.                                *)

\* the records of the held list whose envelope travels in direction d
HeldIn(d) == { r \in Range(held) : store[recs[r].proxy_message].direction = d }

\* direction d has an envelope that is held and not released
Blocked(d) == \E r \in HeldIn(d) : ~recs[r].release

\* the other direction
Opposite(d) == IF d = CLIENT_TO_SERVER THEN SERVER_TO_CLIENT ELSE CLIENT_TO_SERVER

\* C34: a blocked direction reads and captures nothing, the held list has one
\* record per direction at most, and the loop of the other direction, when it
\* is at its read, can still capture
C34_HeadOfLineBlocking ==
    /\ [][\A d \in Direction :
             Blocked(d) =>
                /\ read_log'[d] = read_log[d]
                /\ \A p \in DOMAIN store' : p > Len(store) => store'[p].direction # d]_vars
    /\ [](\A d \in Direction : Cardinality(HeldIn(d)) <= 1)
    /\ [](Len(held) <= 2)
    /\ [](\A d \in Direction :
             ( /\ Blocked(d) /\ pipeline = "running"
               /\ pc[Opposite(d)] = "read" /\ Len(store) < MaxMsgs ) =>
                ENABLED ForwardRead(Opposite(d)))

\* C34 witness: while the first envelope is held and unreleased, the other
\* direction has captured and written the second
C34_OtherDirectionCaptured ==
    /\ Len(store) = 2
    /\ Blocked(store[1].direction)
    /\ store[2].direction = Opposite(store[1].direction)
    /\ Written(2)

----------------------------------------------------------------------------
(* C35: correlation across directions.  Whenever a response envelope has a  *)
(* correlated_id, the request envelope it references has the opposite       *)
(* direction, also when client and server both have a request in flight     *)
(* with the same JSON-RPC id.                                               *)

\* the store position of the envelope with proxy id X
PositionOf(X) == CHOOSE q \in DOMAIN store : store[q].id = X

\* C35: a correlated envelope and the request it references travel in
\* opposite directions
C35_OppositeDirection ==
    \A p \in DOMAIN store :
        store[p].correlated_id # NonePid =>
            store[PositionOf(store[p].correlated_id)].direction = Opposite(store[p].direction)

\* C35: client and server each sent a request with the same id, and the
\* server's response to the client was correlated to the server's own request
C35_CorrelatedToOwnRequest ==
    /\ Len(store) = 3
    /\ store[1].direction = CLIENT_TO_SERVER /\ store[1].method # None
    /\ store[2].direction = SERVER_TO_CLIENT /\ store[2].method # None
    /\ store[1].jsonrpc_id = store[2].jsonrpc_id
    /\ store[3].direction = SERVER_TO_CLIENT
    /\ ReadOf(3).kind = "response"
    /\ store[3].correlated_id = store[2].id

----------------------------------------------------------------------------
(* C36: no duplication, no reflection.  Every envelope is written at most   *)
(* once and only to the adapter opposite its source; every payload an       *)
(* adapter was given is the raw of an envelope that is in the store.        *)

\* the direction whose messages were read from adapter a
From(a) == IF a = "client" THEN CLIENT_TO_SERVER ELSE SERVER_TO_CLIENT

\* C36: what adapter a was given is, write for write, the envelopes that were
\* read from the other adapter, each once and with its raw as payload
C36_NoDuplicationNoReflection ==
    \A a \in Adapters :
        LET d == Opposite(From(a)) IN
        /\ Source(d) # a
        /\ Len(write_queue[a]) = Len(sent[d])
        /\ \A i \in DOMAIN sent[d] :
              /\ sent[d][i] \in DOMAIN store
              /\ store[sent[d][i]].direction = d
              /\ write_queue[a][i] = store[sent[d][i]].raw
              /\ \A j \in DOMAIN sent[d] : sent[d][j] = sent[d][i] => j = i

\* C36 witness: each adapter was given one payload, the raw of the envelope
\* read from the other adapter, and one of the two was edited on the way
C36_OneWriteEachWay ==
    /\ Len(write_queue["client"]) = 1 /\ Len(write_queue["server"]) = 1
    /\ \E p \in DOMAIN store : store[p].modified /\ Written(p)
    /\ pipeline = "returned"

----------------------------------------------------------------------------
(* A replay against a server that also sends requests of its own and that    *)
(* answers with the id of the request it was sent.  The handshake is left    *)
(* out: auto_handshake is false.                                             *)

\* what such a server sends: as before, and a request of its own that carries
\* id 1, and the response to the request it is sent when the raw was edited
ServerAnyMsgs ==
    ServerMsgs \cup { JSONRPCRequest(IntId(1), "sampling/createMessage"),
                      JSONRPCResponse(IntId(2)) }

ReplayAnyInit == ReplayInit /\ auto_handshake = FALSE

ReplayAnyNext ==
    \/ replay_messages
    \/ \E ok \in BOOLEAN : ReplayWrite(ok)
    \/ \E m \in ServerAnyMsgs : ReplayRead(m)
    \/ ReplayReadFails
    \/ ReplayTimeout

ReplayAnySpec == ReplayAnyInit /\ [][ReplayAnyNext]_vars

----------------------------------------------------------------------------
(* C37: what is recorded as a response.  Every non-null response of a       *)
(* ReplayResult is a JSON-RPC response or error; a request of the server    *)
(* that carries the awaited id, read during the wait, is not recorded as    *)
(* the response of the replayed message.                                    *)

\* C37: every recorded response is a response or an error
C37_ResponsesAreResponses ==
    \A k \in DOMAIN results :
        results[k].response # NoneMsg =>
            results[k].response.kind \in {"response", "error"}

\* C37: the server's own request with id 1, read while replay waited for the
\* response to the replayed request with id 1, is in the result as its response
C37_ServerRequestRecorded ==
    \E k \in DOMAIN results :
        /\ results[k].original_request.jsonrpc_id = IntId(1)
        /\ results[k].response = JSONRPCRequest(IntId(1), "sampling/createMessage")
        /\ results[k].error = None

----------------------------------------------------------------------------
(* C38: the awaited id is the written id.  For every replayed request the   *)
(* id replay waits for is the id of the payload it wrote (sent_message),    *)
(* also for an envelope whose raw was edited to carry another id than its   *)
(* jsonrpc_id; a server that answers with the id of the request it received *)
(* is therefore always matched.                                             *)

\* the payload replay wrote in iteration k
WrittenFor(k) ==
    adapter_writes[CHOOSE w \in DOMAIN adapter_writes : adapter_writes[w].for = k].message

\* C38: during a wait the awaited id (line 184) is the id that was written,
\* every recorded response carries the id of sent_message, and a response
\* read with the id that was written is the response of the result
C38_WaitsForWrittenId ==
    /\ replay_pc = "read" =>
          Msg.jsonrpc_id = extract_jsonrpc_id(WrittenFor(Len(results) + 1))
    /\ \A k \in DOMAIN results :
          results[k].response # NoneMsg =>
             extract_jsonrpc_id(results[k].response) = extract_jsonrpc_id(results[k].sent_message)
    /\ \A j \in DOMAIN adapter_reads :
          LET k == adapter_reads[j].for
              m == adapter_reads[j].message
          IN
          ( /\ adapter_reads[j].ok /\ m.kind = "response"
            /\ extract_jsonrpc_id(m) = extract_jsonrpc_id(WrittenFor(k)) ) =>
             /\ k \in DOMAIN results
             /\ results[k].response = m

\* C38: the envelope captured with id 1 was edited to carry id 2; replay wrote
\* id 2, the server answered with id 2, the answer was skipped and the result
\* is a timeout
C38_AnswerToEditedSkipped ==
    \E k \in DOMAIN results :
        /\ results[k].original_request.jsonrpc_id = IntId(1)
        /\ extract_jsonrpc_id(results[k].sent_message) = IntId(2)
        /\ \E j \in ReadsFor(k) : adapter_reads[j].message = JSONRPCResponse(IntId(2))
        /\ results[k].response = NoneMsg
        /\ results[k].error = TimeoutAfter

----------------------------------------------------------------------------
(* C39: late responses.  A response the server emits for a replayed request *)
(* only after that request has timed out is never recorded as the response  *)
(* of a later replayed message, also when a later captured request reuses   *)
(* the same JSON-RPC id.                                                    *)

\* the read j returned the late answer to message k: k timed out, the read was
\* made for a later message, and what it returned is the first response or
\* error carrying the id written for k that was read since k was written
LateResponseTo(k, j) ==
    LET m == adapter_reads[j].message IN
    /\ results[k].error = TimeoutAfter
    /\ adapter_reads[j].ok /\ adapter_reads[j].for > k
    /\ m.kind \in {"response", "error"}
    /\ extract_jsonrpc_id(m) = extract_jsonrpc_id(WrittenFor(k))
    /\ \A i \in 1..(j - 1) :
          ( adapter_reads[i].ok /\ adapter_reads[i].for >= k ) =>
             extract_jsonrpc_id(adapter_reads[i].message) # extract_jsonrpc_id(m)

\* C39: no late answer is the response of a result
C39_LateResponseNotRecorded ==
    \A k \in DOMAIN results : \A j \in DOMAIN adapter_reads :
        LateResponseTo(k, j) =>
            \A n \in DOMAIN results :
                ~( /\ results[n].response # NoneMsg
                   /\ adapter_reads[j].for = n
                   /\ LastReadFor(n) = j )

\* C39: request id 1 timed out with nothing read, the next captured request
\* reuses id 1, and the first response with id 1 is recorded as its response
C39_LateResponseRecorded ==
    /\ Len(results) = 2
    /\ results[1].error = TimeoutAfter
    /\ ReadsFor(1) = {}
    /\ extract_jsonrpc_id(results[1].sent_message) = IntId(1)
    /\ results[2].original_request.jsonrpc_id = IntId(1)
    /\ Cardinality(ReadsFor(2)) = 1
    /\ results[2].response = JSONRPCResponse(IntId(1))

----------------------------------------------------------------------------
(* C40: the first release decides.  The pipeline acts on a held envelope    *)
(* according to the first release call on its record: a further release     *)
(* call on the same record, such as a confirmed edit in the UI after        *)
(* set_mode(passthrough) has released it, changes neither whether the       *)
(* envelope is forwarded nor the payload that is written.                   *)

\* C40: the action the loop read after its wait is the action of the first
\* release call, and an envelope first released with FORWARD is written as
\* it was captured
C40_FirstReleaseDecides ==
    \A r \in DOMAIN recs :
        LET p == recs[r].proxy_message IN
        ( calls[r] # << >> /\ seen[p] # None ) =>
            /\ seen[p] = calls[r][1].action
            /\ ( calls[r][1].action = FORWARD /\ Written(p) ) =>
                  /\ WrittenOf(p) = ReadOf(p)
                  /\ ~store[p].modified

\* C40: the record was released with FORWARD by the switch to passthrough,
\* then with MODIFY by the edit confirmed in the UI before the loop resumed,
\* and the edited payload was written
C40_EditAfterSwitchWritten ==
    \E r \in DOMAIN recs :
        LET p == recs[r].proxy_message IN
        /\ Len(calls[r]) = 2
        /\ calls[r][1] = Call(FORWARD, "set_mode")
        /\ calls[r][2] = Call(MODIFY, "caller")
        /\ seen[p] = MODIFY
        /\ Written(p)
        /\ WrittenOf(p) # ReadOf(p)
        /\ store[p].modified

====
